---- MODULE Spec2Model ----
(***************************************************************************)
(* Model of src/src/services/textSimilarityService.ts: the main-thread     *)
(* TextSimilarityService (initialize / processTexts / cancel / dispose)    *)
(* and the clustering worker it creates (self.onmessage, runClustering and *)
(* the functions it calls), joined by the two postMessage channels.        *)
(*                                                                         *)
(* Conventions.  Array indices are the source's (0-based) wherever they    *)
(* are stored as values (cluster members, clusterMap, merges); a JS array  *)
(* that is pushed to or shifted is a TLA+ sequence, so texts[idx] of the   *)
(* source is TextAt(texts, idx).  Similarities are kept in hundredths      *)
(* (0.8 is 80); the embedding vectors are drawn from a set whose           *)
(* magnitudes are whole numbers, so that dot / (|a| * |b|) is exact.       *)
(* The worker is single threaded: `active` names the run whose             *)
(* synchronous code is executing, and no other worker task starts until it *)
(* reaches an await on a timer or returns.  The statements                 *)
(* `await new Promise(r => setTimeout(r, 0))` of computeSimilarityMatrix   *)
(* (every 10000 pairs, line 419) and performClustering (every 1000 merges, *)
(* line 527) stand in functions that are not declared async; they are not  *)
(* reached for the corpora of the model (at most MaxItems texts), and the  *)
(* two functions are modelled as the synchronous code they are up to       *)
(* there.  TextSimilarityService.cancel() terminates the worker and never  *)
(* posts the 'cancel' message; PostCancel is that message posted by        *)
(* whoever holds the Worker object, WorkerOnCancel the worker's handler.   *)
(***************************************************************************)
EXTENDS Integers, Sequences, FiniteSets, Bags, TLC

\* ---------------------------------------------------------------- bounds

\* Largest corpus handed to processTexts.
MaxTexts == 2

\* Largest corpus of a run followed from its embeddings to its result.
MaxItems == 4

\* processTexts calls (each is one promise and, once its init message is
\* handled, one run of runClustering) and Worker objects created by
\* initialize.
CallIds == {1, 2}
WorkerIds == {1, 2}

\* Text values of the corpora.
TextValues == <<"a", "b">>

\* Embedding vectors the (random) embedding step may return: two that are
\* similar to themselves only (similarity 1 or 0.6).
Vectors == {<<3, 4>>, <<1, 0>>}

\* ------------------------------------------------------ program constants

ModelLoadDelay == 500
BrowserBatchSize == 32
BrowserBatchDelay == 100
OpenAIBatchSize == 100
OpenAIBatchDelay == 300
LabelDelay == 100
MinSampleSize == 10

\* ------------------------------------------------------------ JS values

\* texts[idx] for an index outside the array.
Undefined == "undefined"

\* 0 / 0 in cosineSimilarity and prepareResult; Math.max() of no arguments.
NaN == 0 - 10000
NegInfinity == 0 - 1000000

\* The message of the TypeError raised by reading a property of undefined.
TypeErrorMessage == "Cannot read properties of undefined"

\* x / total * 100 and sum / count, kept as exact fractions (den = 0: NaN).
Frac(n, d) == [num |-> n, den |-> d]

TextAt(arr, idx) == IF idx + 1 \in DOMAIN arr THEN arr[idx + 1] ELSE Undefined

Max(a, b) == IF a >= b THEN a ELSE b

Min(a, b) == IF a <= b THEN a ELSE b

\* ----------------------------------------------------------------- inputs

\* A TextSimilarityConfig with the defaults of the options form for the
\* fields the model does not vary.
ConfigWith(cap, method, key) ==
  [similarityThreshold |-> 80, maxClusterSize |-> cap,
   processingMethod |-> method, samplePercentage |-> 100,
   useClusterLabels |-> TRUE, apiKey |-> key]

\* TextSimilarityConfig values handed to initialize: a cap that lets two
\* items merge (2), a cap that forbids every merge (1) and a cap below 1
\* (0); the browser provider, and the OpenAI provider without and with a
\* key.
Configs ==
  {ConfigWith(cap, pk[1], pk[2]) :
     cap \in {0, 1, 2},
     pk \in {<<"browser", "">>, <<"openai", "">>, <<"openai", "sk">>}}

\* Corpora handed to processTexts: the texts of TextValues taken cyclically
\* from a starting offset (a, b, a, ... or b, a, b, ...), so that corpora
\* differ between calls and may repeat a text.
Corpora ==
  {[p \in 1..n |-> TextValues[((p - 1 + s) % Len(TextValues)) + 1]] :
     n \in 0..MaxTexts, s \in 0..(Len(TextValues) - 1)}

\* ------------------------------------------------- similarity (pure part)

\* Math.sqrt of a perfect square.
Sqrt(x) == CHOOSE m \in 0..x : m * m = x

RECURSIVE SumProducts(_, _, _)
SumProducts(a, b, k) ==
  IF k = 0 THEN 0 ELSE a[k] * b[k] + SumProducts(a, b, k - 1)

\* cosineSimilarity(a, b), in hundredths; 0 / 0 is NaN.
cosineSimilarity(a, b) ==
  LET dotProduct == SumProducts(a, b, Len(a))
      aMagnitude == Sqrt(SumProducts(a, a, Len(a)))
      bMagnitude == Sqrt(SumProducts(b, b, Len(a)))
  IN  IF aMagnitude * bMagnitude = 0
        THEN NaN
        ELSE (dotProduct * 100) \div (aMagnitude * bMagnitude)

TotalPairs(n) == (n * (n - 1)) \div 2

\* The value of pairsProcessed right after pair (i, j) has been stored.
PairsProcessed(n, i, j) == (i * (2 * n - i - 1)) \div 2 + (j - i)

\* The condition under which computeSimilarityMatrix reports progress.
ReportsPair(n, p) == p % 1000 = 0 \/ p = TotalPairs(n)

\* The last column computed in row i: the inner loop breaks at the first
\* reported pair when cancelled is set.
LastColumn(n, canc, i) ==
  LET stops == {j \in (i + 1)..(n - 1) : ReportsPair(n, PairsProcessed(n, i, j))}
  IN  IF canc /\ stops # {}
        THEN CHOOSE j \in stops : \A k \in stops : j <= k
        ELSE n - 1

\* The rows the outer loop reaches: it breaks after its first row when
\* cancelled is set.
RowsReached(n, canc) == IF canc THEN {0} \cap (0..(n - 1)) ELSE 0..(n - 1)

PairComputed(n, canc, i, j) ==
  i < j /\ i \in RowsReached(n, canc) /\ j <= LastColumn(n, canc, i)

\* computeSimilarityMatrix(embeddingVectors): the matrix it returns.
SimilarityMatrixOf(embeddingVectors, canc) ==
  LET n == Len(embeddingVectors)
  IN  [i \in 0..(n - 1) |-> [j \in 0..(n - 1) |->
        IF i = j THEN (IF i \in RowsReached(n, canc) THEN 100 ELSE 0)
        ELSE IF PairComputed(n, canc, Min(i, j), Max(i, j))
          THEN cosineSimilarity(embeddingVectors[Min(i, j) + 1],
                                embeddingVectors[Max(i, j) + 1])
          ELSE 0]]

SimilarityProgress(p, n) ==
  [stage |-> "similarity", percent |-> Frac(p * 100, TotalPairs(n)),
   currentItem |-> p, totalItems |-> TotalPairs(n)]

\* computeSimilarityMatrix(embeddingVectors): the progress events it posts,
\* in order.
SimilarityEvents(n, canc) ==
  LET reported == {p \in 1..TotalPairs(n) :
                     /\ ReportsPair(n, p)
                     /\ \E i \in 0..(n - 1), j \in 0..(n - 1) :
                          PairComputed(n, canc, i, j) /\ PairsProcessed(n, i, j) = p}
      all == [p \in 1..TotalPairs(n) |-> p]
  IN  [k \in DOMAIN SelectSeq(all, LAMBDA p : p \in reported) |->
         SimilarityProgress(SelectSeq(all, LAMBDA p : p \in reported)[k], n)]

\* ------------------------------------------------- clustering (pure part)

\* A candidate test that admits every similarity that is a number.
AnySimilarity(similarity, threshold) == similarity # NaN

\* A candidate test that leaves out a similarity equal to the threshold.
ExceedsThreshold(similarity, threshold) ==
  similarity # NaN /\ similarity > threshold

\* similarityMatrix[i][j] >= threshold; false for NaN.
MeetsThreshold(similarity, threshold) ==
  similarity # NaN /\ similarity >= threshold

\* The merges array before it is sorted: pairs i < j in loop order.
CandidatePairs(matrix, threshold) ==
  LET n == Cardinality(DOMAIN matrix)
      cell == [k \in 1..(n * n) |-> [i |-> (k - 1) \div n, j |-> (k - 1) % n]]
      kept == SelectSeq(cell, LAMBDA c :
                c.i < c.j /\ MeetsThreshold(matrix[c.i][c.j], threshold))
  IN  [k \in DOMAIN kept |->
         [i |-> kept[k].i, j |-> kept[k].j,
          similarity |-> matrix[kept[k].i][kept[k].j]]]

\* A comparator that places the lower similarity first.
SortsAscending(a, b) == a.similarity < b.similarity

\* (a, b) => b.similarity - a.similarity < 0: a is placed before b.
SortsBefore(a, b) == a.similarity > b.similarity

\* A sort that leaves the array in the order of its construction.
LeavesUnsorted(merges) == merges

\* merges.sort(...): Array.prototype.sort is stable, equal keys keep their
\* order.
SortMerges(merges) ==
  LET rank(k) == Cardinality({q \in DOMAIN merges :
                    \/ SortsBefore(merges[q], merges[k])
                    \/ (~SortsBefore(merges[k], merges[q]) /\ q < k)}) + 1
  IN  [p \in DOMAIN merges |-> merges[CHOOSE k \in DOMAIN merges : rank(k) = p]]

\* A size test that refuses a merge that would exactly reach the cap.
ReachesMaxClusterSize(sizeI, sizeJ, maxClusterSize) ==
  sizeI + sizeJ >= maxClusterSize

\* A size test that lets a merge reach one member more than the cap.
ExceedsByTwo(sizeI, sizeJ, maxClusterSize) ==
  sizeI + sizeJ > maxClusterSize + 1

\* clusters[clusterI].length + clusters[clusterJ].length > maxClusterSize
ExceedsMaxClusterSize(sizeI, sizeJ, maxClusterSize) ==
  sizeI + sizeJ > maxClusterSize

\* The non-empty slots of the clusters array, in slot order.
NonEmptyClusters(cl) ==
  LET n == Cardinality(DOMAIN cl)
      slots == [k \in 1..n |-> cl[k - 1]]
  IN  SelectSeq(slots, LAMBDA c : Len(c) > 0)

\* A conversion that numbers a cluster by the slot it occupied.
IdsBySlot(cl, txts) ==
  LET kept == NonEmptyClusters(cl)
  IN  [index \in DOMAIN kept |->
         [id |-> kept[index][1],
          texts |-> [m \in DOMAIN kept[index] |-> TextAt(txts, kept[index][m])],
          representativeText |-> TextAt(txts, kept[index][1])]]

\* finalClusters of performClustering: ids by position, texts read from the
\* worker's texts variable.
FinalClusters(cl, txts) ==
  LET kept == NonEmptyClusters(cl)
  IN  [index \in DOMAIN kept |->
         [id |-> index - 1,
          texts |-> [m \in DOMAIN kept[index] |-> TextAt(txts, kept[index][m])],
          representativeText |-> TextAt(txts, kept[index][1])]]

\* ---------------------------------------------------- labels and result

\* truncateText(text, 50); every text of TextValues is shorter than 50
\* characters, so the text itself is returned.
truncateText(text) == [policy |-> "truncate", text |-> text]

\* truncateText reads text.length.
truncateTextThrows(text) == text = Undefined

\* generateOpenAILabel after its await: the label is built from the words of
\* cluster.texts[0].
generateOpenAILabel(cluster) ==
  [policy |-> "openai", id |-> cluster.id, from |-> cluster.texts[1]]

\* generateOpenAILabel calls firstText.split.
generateOpenAILabelThrows(cluster) == cluster.texts[1] = Undefined

\* generateFrequencyBasedLabel: the most frequent words of all the texts.
generateFrequencyBasedLabel(cluster) ==
  [policy |-> "frequency", id |-> cluster.id, from |-> cluster.texts]

\* generateFrequencyBasedLabel calls text.toLowerCase() on every text.
generateFrequencyBasedLabelThrows(cluster) ==
  \E m \in DOMAIN cluster.texts : cluster.texts[m] = Undefined

\* The condition under which generateClusterLabels delegates a label.
UsesOpenAILabel(cfg) ==
  cfg.processingMethod = "openai" /\ cfg.useClusterLabels /\ cfg.apiKey # ""

RECURSIVE SumSizes(_, _)
SumSizes(cls, k) ==
  IF k = 0 THEN 0 ELSE Len(cls[k].texts) + SumSizes(cls, k - 1)

\* prepareResult(labeledClusters)
prepareResult(labeledClusters) ==
  LET allTexts == UNION {{labeledClusters[c].texts[m] :
                            m \in DOMAIN labeledClusters[c].texts} :
                         c \in DOMAIN labeledClusters}
      lastWith(t) == CHOOSE c \in DOMAIN labeledClusters :
                       /\ \E m \in DOMAIN labeledClusters[c].texts :
                            labeledClusters[c].texts[m] = t
                       /\ \A d \in DOMAIN labeledClusters :
                            (\E m \in DOMAIN labeledClusters[d].texts :
                               labeledClusters[d].texts[m] = t) => d <= c
      totalTexts == SumSizes(labeledClusters, Len(labeledClusters))
      sizes == {Len(labeledClusters[c].texts) : c \in DOMAIN labeledClusters}
  IN  [clusters |-> labeledClusters,
       mapping |-> [t \in allTexts |-> labeledClusters[lastWith(t)].id],
       stats |->
         [totalTexts |-> totalTexts,
          totalClusters |-> Len(labeledClusters),
          averageClusterSize |-> Frac(totalTexts, Len(labeledClusters)),
          largestClusterSize |->
            IF sizes = {} THEN NegInfinity
            ELSE CHOOSE s \in sizes : \A u \in sizes : u <= s,
          singletonCount |->
            Cardinality({c \in DOMAIN labeledClusters :
                           Len(labeledClusters[c].texts) = 1})]]

\* ------------------------------------------------------------------ state

VARIABLES
  \* TextSimilarityService
  worker,            \* this.worker: 0 is null, otherwise the Worker object's id
  alive,             \* the Worker objects created and not yet terminated
  workersCreated,    \* how many Worker objects initialize has created
  config,            \* this.config: <<>> is null, otherwise <<the config>>
  calls,             \* how many times processTexts has been called
  promise,           \* promise[k]: the promise returned by the k-th call
  onmessage,         \* the call whose closures are worker.onmessage / onerror
  earlyCancel,       \* calls whose init message was still queued at cancel()
  \* the two message channels of the current worker
  toWorker,          \* posted by processTexts, not yet handled by the worker
  toMain,            \* posted by the worker, not yet delivered to onmessage
  \* the worker's globals (lines 195-200)
  wConfig, texts, embeddings, similarityMatrix, clusters, cancelled,
  \* the worker's execution
  runs,              \* runs[k]: the runClustering call started by init k
  active,            \* the run whose synchronous code is executing, or 0
  timers,            \* pending setTimeout callbacks, in registration order
  engine,            \* the locals of the executing performClustering call
  posted             \* posted[k]: what run k has posted, in order

svcVars == <<worker, alive, workersCreated, config, calls, promise, onmessage,
             earlyCancel>>

chanVars == <<toWorker, toMain>>

globVars == <<wConfig, texts, embeddings, similarityMatrix, clusters, cancelled>>

ctlVars == <<runs, active, timers, engine, posted>>

vars == <<svcVars, chanVars, globVars, ctlVars>>

\* (texts: the corpus the call was made with, which the promise's closures
\* hold; on: the Worker object whose onmessage and onerror hold the
\* promise's resolve and reject.)
NoPromise ==
  [state |-> "none", by |-> 0, error |-> "", texts |-> <<>>, on |-> 0]

BlankRun ==
  [pc |-> "none", init |-> <<>>, startedCancelled |-> FALSE, failedIn |-> "",
   provider |-> "", inputTexts |-> <<>>, result |-> <<>>, i |-> 0,
   labeledClusters |-> <<>>, li |-> 0]

EngineIdle ==
  [run |-> 0, clusters |-> <<>>, clusterCount |-> 0, merges |-> <<>>,
   clusterMap |-> <<>>, mergesDone |-> 0, totalPossibleMerges |-> 0,
   similarityMatrix |-> <<>>, threshold |-> 0, maxClusterSize |-> 0]

\* A run that has ended keeps what identifies it (the message that started
\* it, whether the flag was set then, where it threw) and drops its locals.
Ended(run, how) ==
  [BlankRun EXCEPT !.pc = how, !.init = run.init,
                   !.startedCancelled = run.startedCancelled,
                   !.failedIn = run.failedIn]

Init ==
  /\ worker = 0
  /\ alive = {}
  /\ workersCreated = 0
  /\ config = <<>>
  /\ calls = 0
  /\ promise = [k \in CallIds |-> NoPromise]
  /\ onmessage = 0
  /\ earlyCancel = {}
  /\ toWorker = <<>>
  /\ toMain = <<>>
  /\ wConfig = <<>>
  /\ texts = <<>>
  /\ embeddings = <<>>
  /\ similarityMatrix = <<>>
  /\ clusters = 0
  /\ cancelled = FALSE
  /\ runs = [k \in CallIds |-> BlankRun]
  /\ active = 0
  /\ timers = <<>>
  /\ engine = EngineIdle
  /\ posted = [k \in CallIds |-> <<>>]

\* ------------------------------------------------------------ main thread
\*
\* The main thread and the worker run in parallel.  A macrotask of the
\* worker is shown here in several steps (active # 0 between them), and the
\* main thread's steps are taken between macrotasks only.  This loses no
\* behaviour: during a macrotask the worker reads neither channel, a
\* delivery of an earlier message commutes with the worker's posts, and
\* terminate() leaves the same state whether it aborts the macrotask or
\* follows it.

\* worker.terminate(): the worker's script is aborted, its globals, timers
\* and queued tasks are gone, and the messages it posted that were not yet
\* delivered are discarded.  A fresh Worker starts from the same values.
TerminateWorker ==
  /\ toWorker' = <<>>
  /\ toMain' = <<>>
  /\ wConfig' = <<>>
  /\ texts' = <<>>
  /\ embeddings' = <<>>
  /\ similarityMatrix' = <<>>
  /\ clusters' = 0
  /\ cancelled' = FALSE
  /\ runs' = [k \in CallIds |->
                IF runs[k].pc = "none" THEN runs[k] ELSE Ended(runs[k], "killed")]
  /\ active' = 0
  /\ timers' = <<>>
  /\ engine' = EngineIdle

\* initialize(config)
Initialize(c) ==
  /\ active = 0
  /\ workersCreated + 1 \in WorkerIds
  /\ config' = <<c>>
  /\ IF worker # 0
       THEN TerminateWorker
       ELSE UNCHANGED <<chanVars, globVars, runs, active, timers, engine>>
  /\ workersCreated' = workersCreated + 1
  /\ worker' = workersCreated + 1
  /\ alive' = (alive \ {worker}) \cup {workersCreated + 1}
  /\ onmessage' = 0
  /\ UNCHANGED <<calls, promise, earlyCancel, posted>>

\* The first initialize call of a service.
FirstInitialize(c) == workersCreated = 0 /\ Initialize(c)

\* The orders in which sort(() => 0.5 - Math.random()) may leave a copy of
\* n elements.  Every permutation is possible; the model follows the
\* rotations of the original order and of its reverse, which bring every
\* position to the front and leave every position out of a shorter prefix.
Shuffles(n) ==
  {[q \in 1..n |-> ((q - 1 + s) % n) + 1] : s \in 0..(n - 1)}
    \cup {[q \in 1..n |-> n - ((q - 1 + s) % n)] : s \in 0..(n - 1)}

\* sampleTexts(texts, sampleSize): the first sampleSize elements of a
\* shuffled copy.
sampleTexts(txts, sampleSize) ==
  IF sampleSize >= Len(txts) THEN {txts}
  ELSE {[q \in 1..sampleSize |-> txts[shuffled[q]]] :
          shuffled \in Shuffles(Len(txts))}

\* A sample size without the floor of ten.
SizeWithoutFloor(length, samplePercentage) ==
  (length * samplePercentage) \div 100

\* sampleSize of processTexts (lines 131-134).
SampleSize(length, samplePercentage) ==
  Max(MinSampleSize, (length * samplePercentage) \div 100)

\* The texts processTexts posts to the worker (lines 128-138).
TextsToProcess(txts, cfg) ==
  IF cfg.samplePercentage < 100
    THEN sampleTexts(txts, SampleSize(Len(txts), cfg.samplePercentage))
    ELSE {txts}

\* processTexts(texts, onProgress)
ProcessTexts(txts) ==
  /\ active = 0
  /\ calls + 1 \in CallIds
  /\ calls' = calls + 1
  /\ IF worker = 0 \/ config = <<>>
       THEN /\ promise' = [promise EXCEPT ![calls + 1] =
                  [state |-> "rejected", by |-> 0,
                   error |-> "Text similarity service not initialized",
                   texts |-> <<>>, on |-> 0]]
            /\ UNCHANGED <<onmessage, toWorker>>
       ELSE /\ promise' = [promise EXCEPT ![calls + 1] =
                  [state |-> "pending", by |-> 0, error |-> "",
                   texts |-> txts, on |-> worker]]
            /\ onmessage' = calls + 1
            /\ \E textsToProcess \in TextsToProcess(txts, config[1]) :
                 toWorker' = Append(toWorker,
                   [type |-> "init", call |-> calls + 1,
                    config |-> config[1], texts |-> textsToProcess])
  /\ UNCHANGED <<worker, alive, workersCreated, config, earlyCancel, toMain,
                 globVars, ctlVars>>

\* The calls whose init message the worker has not started to handle.
NotStarted ==
  {toWorker[q].call : q \in {u \in DOMAIN toWorker : toWorker[u].type = "init"}}

\* A cancel that terminates the worker and keeps the reference to it.
CancelKeepsReference ==
  /\ TerminateWorker
  /\ worker' = worker
  /\ alive' = alive \ {worker}
  /\ earlyCancel' = earlyCancel

\* cancel(): lines 153-156.
CancelEffect ==
  /\ TerminateWorker
  /\ worker' = 0
  /\ alive' = alive \ {worker}
  /\ earlyCancel' = earlyCancel \cup NotStarted

\* cancel()
Cancel ==
  /\ active = 0
  /\ worker # 0
  /\ CancelEffect
  /\ UNCHANGED <<workersCreated, config, calls, promise, onmessage, posted>>

\* dispose()
Dispose ==
  /\ active = 0
  /\ worker # 0 \/ (config # <<>> /\ config[1].apiKey # "")
  /\ IF worker # 0
       THEN CancelEffect
       ELSE UNCHANGED <<worker, alive, earlyCancel, chanVars, globVars,
                        runs, active, timers, engine>>
  /\ config' = IF config # <<>> /\ config[1].apiKey # ""
                 THEN <<[config[1] EXCEPT !.apiKey = ""]>>
                 ELSE config
  /\ UNCHANGED <<workersCreated, calls, promise, onmessage, posted>>

\* How many of the queued messages one step delivers: the progress messages
\* at the head of the queue and the message after them.  onmessage hands a
\* progress message to the caller's onProgress and changes nothing of the
\* service, so only the last message delivered can change a promise.
Delivered(queue) ==
  LET terminal == {q \in DOMAIN queue : queue[q].type # "progress"}
  IN  IF terminal = {} THEN Len(queue)
      ELSE CHOOSE q \in terminal : \A u \in terminal : q <= u

\* worker.onmessage of the main thread (lines 103-121), for the oldest
\* undelivered messages.
MainOnMessage ==
  /\ active = 0
  /\ toMain # <<>>
  /\ toMain' = SubSeq(toMain, Delivered(toMain) + 1, Len(toMain))
  /\ LET message == toMain[Delivered(toMain)]
         k == onmessage
     IN  IF k # 0 /\ message.type = "result" /\ promise[k].state = "pending"
           THEN promise' = [promise EXCEPT ![k] =
                  [state |-> "resolved", by |-> message.run, error |-> "",
                   texts |-> promise[k].texts, on |-> promise[k].on]]
         ELSE IF k # 0 /\ message.type = "error" /\ promise[k].state = "pending"
           THEN promise' = [promise EXCEPT ![k] =
                  [state |-> "rejected", by |-> message.run,
                   error |-> message.error, texts |-> promise[k].texts,
                   on |-> promise[k].on]]
         ELSE UNCHANGED promise
  /\ UNCHANGED <<worker, alive, workersCreated, config, calls, onmessage,
                 earlyCancel, toWorker, globVars, ctlVars>>

\* ----------------------------------------------------------------- worker

\* updateProgress(stage, percent, message, details)
Progress(r, details) == [type |-> "progress", run |-> r, progress |-> details]

Stage(stage, percent) == [stage |-> stage, percent |-> Frac(percent, 1)]

\* What posted[r] keeps of a message: everything but a result's payload.
Logged(m) == IF m.type = "result" THEN [type |-> "result", run |-> m.run] ELSE m

\* The first test of the cancelled flag that finds it set is recorded in
\* posted[r], once.
Observed(r, log) ==
  IF \E q \in DOMAIN log : log[q].type = "cancelObserved"
    THEN log
    ELSE Append(log, [type |-> "cancelObserved", run |-> r])

\* self.postMessage for each message of out, in order, followed (when
\* sawCancel) by a test of the cancelled flag that finds it set.
EmitThen(r, out, sawCancel) ==
  /\ toMain' = toMain \o out
  /\ posted' = [posted EXCEPT ![r] =
        IF sawCancel
          THEN Observed(r, @ \o [q \in DOMAIN out |-> Logged(out[q])])
          ELSE @ \o [q \in DOMAIN out |-> Logged(out[q])]]

Emit(r, out) == EmitThen(r, out, FALSE)

\* A runClustering whose `if (cancelled) return;` statements are missing.
NeverReturnsEarly == FALSE

\* `if (cancelled) return;` of runClustering (lines 242, 248, 254, 260).
ReturnsIfCancelled == cancelled

\* runClustering returns without posting: the run is over.
ReturnCancelled(r) ==
  /\ runs' = [runs EXCEPT ![r] = Ended(@, "done")]
  /\ posted' = [posted EXCEPT ![r] = Observed(r, @)]
  /\ active' = 0
  /\ UNCHANGED toMain

\* An exception leaves runClustering and is caught by self.onmessage
\* (lines 218-223), which posts the error message.
Throw(r, where, before) ==
  /\ runs' = [runs EXCEPT ![r] = Ended([@ EXCEPT !.failedIn = where], "done")]
  /\ Emit(r, before \o
             <<[type |-> "error", run |-> r, error |-> TypeErrorMessage]>>)
  /\ active' = 0

\* A pending timer may fire unless one registered before it is due sooner
\* or at the same time.
MayFire(k) == \A q \in 1..(k - 1) : timers[q].delay > timers[k].delay

WithoutTimer(k) == SubSeq(timers, 1, k - 1) \o SubSeq(timers, k + 1, Len(timers))

\* The timer on which run r is suspended fires and the worker is idle.
Resumes(r, at, k) ==
  /\ worker # 0
  /\ active = 0
  /\ runs[r].pc = at
  /\ k \in DOMAIN timers
  /\ timers[k].run = r
  /\ MayFire(k)

\* self.onmessage, message.type === 'init' (lines 211-217), and runClustering
\* up to its first await or to the call of generateEmbeddings.
WorkerOnInit ==
  /\ worker # 0
  /\ active = 0
  /\ toWorker # <<>>
  /\ Head(toWorker).type = "init"
  /\ LET message == Head(toWorker)
         r == message.call
         browser == message.config.processingMethod = "browser"
     IN  /\ toWorker' = Tail(toWorker)
         /\ wConfig' = <<message.config>>
         /\ texts' = message.texts
         /\ runs' = [runs EXCEPT ![r] =
               [BlankRun EXCEPT
                  !.pc = IF browser THEN "loadWait" ELSE "embed",
                  !.init = <<[config |-> message.config, texts |-> message.texts]>>,
                  !.startedCancelled = cancelled]]
         /\ active' = IF browser THEN 0 ELSE r
         /\ timers' = IF browser
                        THEN Append(timers, [run |-> r, delay |-> ModelLoadDelay])
                        ELSE timers
         /\ Emit(r, <<Progress(r, Stage("modelLoading", 0))>> \o
                    (IF browser
                       THEN <<Progress(r, Stage("modelLoading", 10)),
                              Progress(r, Stage("modelLoading", 30)),
                              Progress(r, Stage("modelLoading", 70))>>
                       ELSE <<>>))
  /\ UNCHANGED <<svcVars, embeddings, similarityMatrix, clusters, cancelled,
                 engine>>

\* A { type: 'cancel' } message is posted to the worker.  The service never
\* posts one (cancel() terminates the worker instead); this is whoever holds
\* the Worker object.  The message may be posted at any time, also while the
\* worker is executing a macrotask, and waits in the worker's queue.  One
\* such message is followed at a time.
PostCancel ==
  /\ worker # 0
  /\ ~cancelled
  /\ \A q \in DOMAIN toWorker : toWorker[q].type # "cancel"
  /\ toWorker' = Append(toWorker, [type |-> "cancel"])
  /\ UNCHANGED <<svcVars, toMain, globVars, ctlVars>>

\* PostCancel between two macrotasks of the worker, where the main thread's
\* steps are taken.
PostCancelWhenIdle == active = 0 /\ PostCancel

\* self.onmessage, message.type === 'cancel' (lines 224-226).
WorkerOnCancel ==
  /\ worker # 0
  /\ active = 0
  /\ toWorker # <<>>
  /\ Head(toWorker).type = "cancel"
  /\ toWorker' = Tail(toWorker)
  /\ cancelled' = TRUE
  /\ UNCHANGED <<svcVars, toMain, wConfig, texts, embeddings,
                 similarityMatrix, clusters, ctlVars>>

\* loadTensorFlowAndModel after its await (line 310).
ModelLoaded(r) ==
  \E k \in DOMAIN timers :
    /\ Resumes(r, "loadWait", k)
    /\ timers' = WithoutTimer(k)
    /\ runs' = [runs EXCEPT ![r].pc = "embed"]
    /\ active' = r
    /\ Emit(r, <<Progress(r, Stage("modelLoading", 100))>>)
    /\ UNCHANGED <<svcVars, toWorker, globVars, engine>>

\* A batch size that is that of the browser provider for both providers.
BrowserBatchSizeForAll(provider) == BrowserBatchSize

BatchSize(provider) ==
  IF provider = "openai" THEN OpenAIBatchSize ELSE BrowserBatchSize

BatchDelay(provider) ==
  IF provider = "openai" THEN OpenAIBatchDelay ELSE BrowserBatchDelay

EmbeddingProgress(r, i, total) ==
  Progress(r, [stage |-> "embedding", percent |-> Frac(i * 100, total),
               currentItem |-> i, totalItems |-> total])

\* A batch loop that stops before its first batch.
NoBatches(run) == FALSE

\* i < inputTexts.length, the condition of the batch loops (lines 329, 362).
MoreBatches(run) == run.i < Len(run.inputTexts)

\* The head of the batch loop of generateOpenAIEmbeddings /
\* generateBrowserEmbeddings with the given locals: either the next batch is
\* announced and awaited, or the function returns and runClustering assigns
\* embeddings (line 240).
BatchLoop(r, run, before, tm) ==
  IF MoreBatches(run)
    THEN /\ runs' = [runs EXCEPT ![r] = [run EXCEPT !.pc = "batchWait"]]
         /\ timers' = Append(tm, [run |-> r, delay |-> BatchDelay(run.provider)])
         /\ active' = 0
         /\ Emit(r, before \o
                    <<EmbeddingProgress(r, run.i, Len(run.inputTexts))>>)
         /\ UNCHANGED embeddings
    ELSE /\ runs' = [runs EXCEPT ![r] =
               [run EXCEPT !.pc = "similarity", !.result = <<>>]]
         /\ timers' = tm
         /\ active' = r
         /\ Emit(r, before)
         /\ embeddings' = run.result

\* runClustering lines 239-240: the embedding stage starts.
StartEmbedding(r) ==
  /\ active = r
  /\ runs[r].pc = "embed"
  /\ BatchLoop(r, [runs[r] EXCEPT !.provider = wConfig[1].processingMethod,
                                  !.inputTexts = texts,
                                  !.result = <<>>, !.i = 0],
               <<Progress(r, Stage("embedding", 0))>>, timers)
  /\ UNCHANGED <<svcVars, toWorker, wConfig, texts, similarityMatrix, clusters,
                 cancelled, engine>>

\* batch.map(() => Array.from({length: ...}, () => Math.random() * 2 - 1)):
\* one random vector per text of the batch.  Every choice of vectors is
\* followed for a batch of up to MaxItems texts; for a longer batch, the
\* choices in which all its texts get the same vector.
BatchEmbeddings(size) ==
  IF size <= MaxItems
    THEN [1..size -> Vectors]
    ELSE {[p \in 1..size |-> v] : v \in Vectors}

\* The batch loop after its await: the batch's vectors are appended, the
\* flag is tested, and the loop goes on (lines 343-349, 375-381).
BatchDone(r) ==
  \E k \in DOMAIN timers :
    /\ Resumes(r, "batchWait", k)
    /\ LET run == runs[r]
           size == Min(Len(run.inputTexts) - run.i, BatchSize(run.provider))
       IN  \E batchEmbeddings \in BatchEmbeddings(size) :
             IF cancelled
               THEN /\ runs' = [runs EXCEPT ![r] =
                          [run EXCEPT !.result = <<>>, !.pc = "similarity"]]
                    /\ embeddings' = run.result \o batchEmbeddings
                    /\ timers' = WithoutTimer(k)
                    /\ active' = r
                    /\ posted' = [posted EXCEPT ![r] = Observed(r, @)]
                    /\ UNCHANGED toMain
               ELSE BatchLoop(r, [run EXCEPT !.result = @ \o batchEmbeddings,
                                             !.i = @ + BatchSize(run.provider)],
                              <<>>, WithoutTimer(k))
    /\ UNCHANGED <<svcVars, toWorker, wConfig, texts, similarityMatrix, clusters,
                   cancelled, engine>>

\* embeddings and similarityMatrix are written by runClustering and read
\* only later in the same macrotask (lines 240-252).  After their last read
\* no code reads them before it has written them again, and the model drops
\* their values there.
Dropped == <<>>

\* runClustering lines 242-246: the similarity stage.
ComputeSimilarity(r) ==
  /\ active = r
  /\ runs[r].pc = "similarity"
  /\ embeddings' = Dropped
  /\ IF ReturnsIfCancelled
       THEN ReturnCancelled(r) /\ UNCHANGED similarityMatrix
       ELSE /\ similarityMatrix' = SimilarityMatrixOf(embeddings, cancelled)
            /\ runs' = [runs EXCEPT ![r].pc = "clustering"]
            /\ Emit(r, <<Progress(r, Stage("similarity", 0))>> \o
                       [q \in DOMAIN SimilarityEvents(Len(embeddings), cancelled) |->
                          Progress(r, SimilarityEvents(Len(embeddings), cancelled)[q])])
            /\ UNCHANGED active
  /\ UNCHANGED <<svcVars, toWorker, wConfig, texts, clusters, cancelled, timers,
                 engine>>

\* performClustering lines 452-485: the locals before the merge loop.
StartEngine(r, matrix, threshold, maxClusterSize) ==
  LET n == Cardinality(DOMAIN matrix)
      merges == SortMerges(CandidatePairs(matrix, threshold))
  IN  [run |-> r,
       clusters |-> [c \in 0..(n - 1) |-> <<c>>],
       clusterCount |-> n,
       merges |-> merges,
       clusterMap |-> [i \in 0..(n - 1) |-> i],
       mergesDone |-> 0,
       totalPossibleMerges |-> Len(merges),
       similarityMatrix |-> matrix,
       threshold |-> threshold,
       maxClusterSize |-> maxClusterSize]

\* A test that merges two different clusters whatever their sizes.
MergesAnySize(e) ==
  e.clusterMap[Head(e.merges).i] # e.clusterMap[Head(e.merges).j]

\* Whether the candidate at the head of merges is merged (lines 492-501).
Merges(e) ==
  LET clusterI == e.clusterMap[Head(e.merges).i]
      clusterJ == e.clusterMap[Head(e.merges).j]
  IN  /\ clusterI # clusterJ
      /\ ~ExceedsMaxClusterSize(Len(e.clusters[clusterI]),
                                Len(e.clusters[clusterJ]), e.maxClusterSize)

\* A loop that puts a candidate it does not merge back at the end.
Requeued(e) == [e EXCEPT !.merges = Append(Tail(@), Head(@))]

\* merges.shift() followed by `continue` (lines 489-501): the candidate is
\* dropped and nothing else changes.
Skipped(e) == [e EXCEPT !.merges = Tail(@)]

\* An update that leaves the assignments of the absorbed members alone.
NotRemapped(clusterMap, absorbed, mergeInto) == clusterMap

\* for (const idx of clusters[mergeFrom]) clusterMap.set(idx, mergeInto)
Remapped(clusterMap, absorbed, mergeInto) ==
  [idx \in DOMAIN clusterMap |->
     IF idx \in absorbed THEN mergeInto ELSE clusterMap[idx]]

\* One iteration of the merge loop up to the progress report
\* (lines 489-518).
MergeIteration(e) ==
  LET clusterI == e.clusterMap[Head(e.merges).i]
      clusterJ == e.clusterMap[Head(e.merges).j]
      mergeInto == IF Len(e.clusters[clusterI]) >= Len(e.clusters[clusterJ])
                     THEN clusterI ELSE clusterJ
      mergeFrom == IF mergeInto = clusterI THEN clusterJ ELSE clusterI
      absorbed == {e.clusters[mergeFrom][m] : m \in DOMAIN e.clusters[mergeFrom]}
  IN  IF ~Merges(e)
        THEN Skipped(e)
        ELSE [e EXCEPT
                !.merges = Tail(@),
                !.clusterMap = Remapped(@, absorbed, mergeInto),
                !.clusters = [c \in DOMAIN @ |->
                                IF c = mergeInto
                                  THEN @[mergeInto] \o @[mergeFrom]
                                ELSE IF c = mergeFrom THEN <<>> ELSE @[c]],
                !.clusterCount = @ - 1,
                !.mergesDone = @ + 1]

\* mergesDone % 100 === 0 || merges.length === 0, tested after a merge.
ReportsMerge(e) == e.mergesDone % 100 = 0 \/ e.merges = <<>>

ClusteringProgress(r, e) ==
  Progress(r, [stage |-> "clustering",
               percent |-> Frac(e.mergesDone * 100, e.totalPossibleMerges),
               clusterCount |-> Len(NonEmptyClusters(e.clusters))])

\* runClustering lines 248-252 and performClustering up to its merge loop.
StartClustering(r) ==
  /\ active = r
  /\ runs[r].pc = "clustering"
  /\ similarityMatrix' = Dropped
  /\ IF ReturnsIfCancelled
       THEN ReturnCancelled(r) /\ UNCHANGED engine
       ELSE /\ engine' = StartEngine(r, similarityMatrix,
                                     wConfig[1].similarityThreshold,
                                     wConfig[1].maxClusterSize)
            /\ runs' = [runs EXCEPT ![r].pc =
                  IF engine'.merges = <<>> THEN "clustered" ELSE "merge"]
            /\ Emit(r, <<Progress(r, Stage("clustering", 0))>>)
            /\ UNCHANGED active
  /\ UNCHANGED <<svcVars, toWorker, wConfig, texts, embeddings, clusters,
                 cancelled, timers>>

\* One iteration of `while (merges.length > 0)` (lines 487-532).
MergeStep(r) ==
  /\ active = r
  /\ runs[r].pc = "merge"
  /\ engine' = MergeIteration(engine)
  /\ LET reports == Merges(engine) /\ ReportsMerge(engine')
         breaks == reports /\ cancelled
     IN  /\ runs' = [runs EXCEPT ![r].pc =
               IF breaks \/ engine'.merges = <<>> THEN "clustered" ELSE "merge"]
         /\ EmitThen(r, IF reports THEN <<ClusteringProgress(r, engine')>>
                                   ELSE <<>>, breaks)
  /\ UNCHANGED <<svcVars, toWorker, globVars, active, timers>>

LabelingProgress(r, i, total) ==
  Progress(r, [stage |-> "labeling", percent |-> Frac(i * 100, total),
               currentItem |-> i + 1, totalItems |-> total])

\* performClustering lines 534-545, runClustering lines 252-258 and
\* generateClusterLabels up to its loop (lines 551-554).
FinishClustering(r) ==
  /\ active = r
  /\ runs[r].pc = "clustered"
  /\ clusters' = r
  /\ engine' = EngineIdle
  /\ IF ReturnsIfCancelled
       THEN ReturnCancelled(r)
       ELSE /\ runs' = [runs EXCEPT ![r] =
                  [@ EXCEPT !.labeledClusters = FinalClusters(engine.clusters, texts),
                            !.li = 0,
                            !.pc = IF NonEmptyClusters(engine.clusters) = <<>>
                                     THEN "labeled" ELSE "label"]]
            /\ Emit(r, <<Progress(r, Stage("labeling", 0)),
                         Progress(r, Stage("labeling", 0))>>)
            /\ UNCHANGED active
  /\ UNCHANGED <<svcVars, toWorker, wConfig, texts, embeddings, similarityMatrix,
                 cancelled, timers>>

WithLabel(cluster, label) ==
  [id |-> cluster.id, texts |-> cluster.texts,
   representativeText |-> cluster.representativeText, label |-> label]

\* generateClusterLabels lines 573-580: cluster li has its label; progress
\* is posted, the flag is tested and the loop goes on.
Labeled(r, run, label) ==
  LET total == Len(run.labeledClusters)
      breaks == cancelled
      next == [run EXCEPT
                 !.labeledClusters[run.li + 1] = WithLabel(@, label),
                 !.li = IF breaks THEN @ ELSE @ + 1,
                 !.pc = IF breaks \/ run.li + 1 >= total
                          THEN "labeled" ELSE "label"]
  IN  /\ runs' = [runs EXCEPT ![r] = next]
      /\ EmitThen(r, <<LabelingProgress(r, run.li, total)>>, breaks)
      /\ active' = r

\* One iteration of the loop of generateClusterLabels up to the label
\* (lines 559-571): a label computed at once, or the delegated call started.
LabelStep(r) ==
  /\ active = r
  /\ runs[r].pc = "label"
  /\ LET run == runs[r]
         cluster == run.labeledClusters[run.li + 1]
     IN  IF Len(cluster.texts) = 1
           THEN /\ IF truncateTextThrows(cluster.texts[1])
                     THEN Throw(r, "truncateText", <<>>)
                     ELSE Labeled(r, run, truncateText(cluster.texts[1]))
                /\ UNCHANGED timers
         ELSE IF UsesOpenAILabel(wConfig[1])
           THEN /\ runs' = [runs EXCEPT ![r].pc = "labelWait"]
                /\ timers' = Append(timers, [run |-> r, delay |-> LabelDelay])
                /\ active' = 0
                /\ UNCHANGED <<toMain, posted>>
         ELSE /\ IF generateFrequencyBasedLabelThrows(cluster)
                   THEN Throw(r, "generateFrequencyBasedLabel", <<>>)
                   ELSE Labeled(r, run, generateFrequencyBasedLabel(cluster))
              /\ UNCHANGED timers
  /\ UNCHANGED <<svcVars, toWorker, globVars, engine>>

\* generateOpenAILabel after its await (lines 598-603), then the rest of the
\* iteration.
OpenAILabelDone(r) ==
  \E k \in DOMAIN timers :
    /\ Resumes(r, "labelWait", k)
    /\ timers' = WithoutTimer(k)
    /\ LET run == runs[r]
           cluster == run.labeledClusters[run.li + 1]
       IN  IF generateOpenAILabelThrows(cluster)
             THEN Throw(r, "generateOpenAILabel", <<>>)
             ELSE Labeled(r, run, generateOpenAILabel(cluster))
    /\ UNCHANGED <<svcVars, toWorker, globVars, engine>>

ResultMessage(r, labeledClusters) ==
  [type |-> "result", run |-> r, result |-> prepareResult(labeledClusters)]

\* A run that posts its result without the 'complete' event.
ResultOnly(r, labeledClusters) == <<ResultMessage(r, labeledClusters)>>

\* runClustering lines 263-270: the 'complete' event, then the result.
FinalPosts(r, labeledClusters) ==
  <<Progress(r, Stage("complete", 100)), ResultMessage(r, labeledClusters)>>

\* runClustering lines 260-270.
Finish(r) ==
  /\ active = r
  /\ runs[r].pc = "labeled"
  /\ IF ReturnsIfCancelled
       THEN ReturnCancelled(r)
       ELSE /\ runs' = [runs EXCEPT ![r] = Ended(@, "done")]
            /\ Emit(r, FinalPosts(r, runs[r].labeledClusters))
            /\ active' = 0
  /\ UNCHANGED <<svcVars, toWorker, globVars, timers, engine>>

\* ---------------------------------------------------------- specification

Next ==
  \/ \E c \in Configs : FirstInitialize(c)
  \/ \E txts \in Corpora : ProcessTexts(txts)
  \/ Cancel
  \/ Dispose
  \/ MainOnMessage
  \/ WorkerOnInit
  \/ PostCancelWhenIdle
  \/ WorkerOnCancel
  \/ \E r \in CallIds : ModelLoaded(r)
  \/ \E r \in CallIds : StartEmbedding(r)
  \/ \E r \in CallIds : BatchDone(r)
  \/ \E r \in CallIds : ComputeSimilarity(r)
  \/ \E r \in CallIds : StartClustering(r)
  \/ \E r \in CallIds : MergeStep(r)
  \/ \E r \in CallIds : FinishClustering(r)
  \/ \E r \in CallIds : LabelStep(r)
  \/ \E r \in CallIds : OpenAILabelDone(r)
  \/ \E r \in CallIds : Finish(r)

Spec == Init /\ [][Next]_vars

\* ------------------------------------------------------ sampling alone
\*
\* initialize with a samplePercentage below or at 100 and processTexts calls
\* over corpora of up to MaxSampled texts; the worker's steps are left out.

\* Largest corpus handed to processTexts where sampling is followed.
MaxSampled == 13

\* The texts of those corpora; the last ones repeat the first.
SampledTexts ==
  <<"t1", "t2", "t3", "t4", "t5", "t6", "t7", "t8", "t9", "t10", "t11", "t12",
    "t1", "t2", "t3", "t4">>

SampledCorpora == {SubSeq(SampledTexts, 1, n) : n \in 0..MaxSampled}

SamplingConfigs ==
  {[ConfigWith(2, "openai", "") EXCEPT !.samplePercentage = pct] :
     pct \in {0, 50, 90, 100}}

SamplingNext ==
  \/ \E c \in SamplingConfigs : FirstInitialize(c)
  \/ \E txts \in SampledCorpora : ProcessTexts(txts)

SpecSampling == Init /\ [][SamplingNext]_vars

\* ------------------------------------------- one run, from its embeddings
\*
\* The states in which a single run (initialize, one processTexts call of n
\* texts through the OpenAI provider, nothing cancelled, every message so
\* far delivered) has its n embeddings and is about to test the flag at
\* line 242, for corpora of up to MaxItems texts and caps from 1 up, and the
\* worker's steps from there.  A 'cancel' message may be posted at any
\* moment of them.  The embeddings also include a vector at similarity 0.96
\* and 0.8 to the two of Vectors, and a vector of magnitude 0.

ZeroVector == <<0, 0>>

ItemVectors == Vectors \cup {<<4, 3>>, ZeroVector}

ItemCorpus(n) == [p \in 1..n |-> TextValues[((p - 1) % Len(TextValues)) + 1]]

ClusteringConfigs ==
  {ConfigWith(cap, "openai", key) : cap \in 1..MaxItems, key \in {"", "sk"}}

\* What the run has posted when its embeddings are complete.
PostedBeforeSimilarity(n) ==
  <<Progress(1, Stage("modelLoading", 0)), Progress(1, Stage("embedding", 0))>>
    \o (IF n > 0 THEN <<EmbeddingProgress(1, 0, n)>> ELSE <<>>)

ClusteringInit ==
  \E n \in 0..MaxItems, cfg \in ClusteringConfigs :
    \E vectors \in [1..n -> ItemVectors] :
      /\ worker = 1
      /\ alive = {1}
      /\ workersCreated = 1
      /\ config = <<cfg>>
      /\ calls = 1
      /\ promise = [k \in CallIds |->
                      IF k = 1 THEN [state |-> "pending", by |-> 0, error |-> "",
                                     texts |-> ItemCorpus(n), on |-> 1]
                      ELSE NoPromise]
      /\ onmessage = 1
      /\ earlyCancel = {}
      /\ toWorker = <<>>
      /\ toMain = <<>>
      /\ wConfig = <<cfg>>
      /\ texts = ItemCorpus(n)
      /\ embeddings = vectors
      /\ similarityMatrix = <<>>
      /\ clusters = 0
      /\ cancelled = FALSE
      /\ runs = [k \in CallIds |->
                   IF k = 1
                     THEN [BlankRun EXCEPT
                             !.pc = "similarity",
                             !.init = <<[config |-> cfg, texts |-> ItemCorpus(n)]>>,
                             !.provider = "openai",
                             !.inputTexts = ItemCorpus(n),
                             !.i = IF n > 0 THEN OpenAIBatchSize ELSE 0]
                     ELSE BlankRun]
      /\ active = 1
      /\ timers = <<>>
      /\ engine = EngineIdle
      /\ posted = [k \in CallIds |->
                     IF k = 1 THEN PostedBeforeSimilarity(n) ELSE <<>>]

ClusteringNext ==
  \/ ComputeSimilarity(1)
  \/ StartClustering(1)
  \/ MergeStep(1)
  \/ FinishClustering(1)
  \/ LabelStep(1)
  \/ OpenAILabelDone(1)
  \/ Finish(1)
  \/ PostCancel
  \/ WorkerOnCancel

SpecClustering == ClusteringInit /\ [][ClusteringNext]_vars

\* ------------------------------------- one run, up to its embeddings
\*
\* The states in which a single run (initialize, one processTexts call of n
\* texts, nothing cancelled, every message so far delivered) is about to
\* call generateEmbeddings at line 239, for either provider and corpora of
\* up to MaxEmbedded texts, which is more than one batch of either
\* provider, and the worker's steps up to the end of the embedding stage.
\* A 'cancel' message may be posted at any moment of them.

MaxEmbedded == 101

EmbeddingConfigs == {ConfigWith(2, "browser", ""), ConfigWith(2, "openai", "")}

\* What the run has posted when it calls generateEmbeddings.
PostedBeforeEmbedding(cfg) ==
  IF cfg.processingMethod = "browser"
    THEN <<Progress(1, Stage("modelLoading", 0)),
           Progress(1, Stage("modelLoading", 10)),
           Progress(1, Stage("modelLoading", 30)),
           Progress(1, Stage("modelLoading", 70)),
           Progress(1, Stage("modelLoading", 100))>>
    ELSE <<Progress(1, Stage("modelLoading", 0))>>

EmbeddingInit ==
  \E n \in 0..MaxEmbedded, cfg \in EmbeddingConfigs :
    /\ worker = 1
    /\ alive = {1}
    /\ workersCreated = 1
    /\ config = <<cfg>>
    /\ calls = 1
    /\ promise = [k \in CallIds |->
                    IF k = 1 THEN [state |-> "pending", by |-> 0, error |-> "",
                                   texts |-> ItemCorpus(n), on |-> 1]
                    ELSE NoPromise]
    /\ onmessage = 1
    /\ earlyCancel = {}
    /\ toWorker = <<>>
    /\ toMain = <<>>
    /\ wConfig = <<cfg>>
    /\ texts = ItemCorpus(n)
    /\ embeddings = <<>>
    /\ similarityMatrix = <<>>
    /\ clusters = 0
    /\ cancelled = FALSE
    /\ runs = [k \in CallIds |->
                 IF k = 1
                   THEN [BlankRun EXCEPT
                           !.pc = "embed",
                           !.init = <<[config |-> cfg, texts |-> ItemCorpus(n)]>>]
                   ELSE BlankRun]
    /\ active = 1
    /\ timers = <<>>
    /\ engine = EngineIdle
    /\ posted = [k \in CallIds |->
                   IF k = 1 THEN PostedBeforeEmbedding(cfg) ELSE <<>>]

EmbeddingNext ==
  \/ StartEmbedding(1)
  \/ BatchDone(1)
  \/ PostCancel
  \/ WorkerOnCancel

SpecEmbedding == EmbeddingInit /\ [][EmbeddingNext]_vars

\* --------------------------------------------- one run, from its message
\*
\* The states in which initialize has created the worker and one
\* processTexts call has posted its init message, for either provider,
\* corpora of up to MaxRunItems texts (three candidate pairs) and caps from
\* 1 up, and the worker's steps from there.  A 'cancel' message may be posted at any moment of them.
\* The worker's event loop runs a queued message task and a timer that is
\* due, and synchronous code runs to its next await or to its end: the
\* worker's steps are weakly fair.  Nothing obliges anyone to post a
\* 'cancel' message.

MaxRunItems == 3

RunConfigs ==
  ClusteringConfigs \cup {ConfigWith(cap, "browser", "") : cap \in 1..MaxItems}

RunInit ==
  \E n \in 0..MaxRunItems, cfg \in RunConfigs :
    /\ worker = 1
    /\ alive = {1}
    /\ workersCreated = 1
    /\ config = <<cfg>>
    /\ calls = 1
    /\ promise = [k \in CallIds |->
                    IF k = 1 THEN [state |-> "pending", by |-> 0, error |-> "",
                                   texts |-> ItemCorpus(n), on |-> 1]
                    ELSE NoPromise]
    /\ onmessage = 1
    /\ earlyCancel = {}
    /\ toWorker = <<[type |-> "init", call |-> 1, config |-> cfg,
                      texts |-> ItemCorpus(n)]>>
    /\ toMain = <<>>
    /\ wConfig = <<>>
    /\ texts = <<>>
    /\ embeddings = <<>>
    /\ similarityMatrix = <<>>
    /\ clusters = 0
    /\ cancelled = FALSE
    /\ runs = [k \in CallIds |-> BlankRun]
    /\ active = 0
    /\ timers = <<>>
    /\ engine = EngineIdle
    /\ posted = [k \in CallIds |-> <<>>]

\* The steps of the worker for the run.
WorkerSteps ==
  \/ WorkerOnInit
  \/ WorkerOnCancel
  \/ ModelLoaded(1)
  \/ StartEmbedding(1)
  \/ BatchDone(1)
  \/ ComputeSimilarity(1)
  \/ StartClustering(1)
  \/ MergeStep(1)
  \/ FinishClustering(1)
  \/ LabelStep(1)
  \/ OpenAILabelDone(1)
  \/ Finish(1)

RunNext == WorkerSteps \/ PostCancel

SpecRunFair == RunInit /\ [][RunNext]_vars /\ WF_vars(WorkerSteps)

\* ------------------------------------------------ the service's worker
\*
\* Spec follows one Worker object: a service that is initialized once.
\* Here initialize may be called again, with or without a worker alive,
\* for one configuration of each provider and corpora of one and two
\* texts, with every step of the main thread and of the worker.

LifecycleConfigs == {ConfigWith(2, "browser", ""), ConfigWith(2, "openai", "sk")}

LifecycleCorpora == {<<TextValues[1]>>, <<TextValues[1], TextValues[2]>>}

LifecycleNext ==
  \/ \E c \in LifecycleConfigs : Initialize(c)
  \/ \E txts \in LifecycleCorpora : ProcessTexts(txts)
  \/ Cancel
  \/ Dispose
  \/ MainOnMessage
  \/ WorkerOnInit
  \/ \E r \in CallIds : ModelLoaded(r)
  \/ \E r \in CallIds : StartEmbedding(r)
  \/ \E r \in CallIds : BatchDone(r)
  \/ \E r \in CallIds : ComputeSimilarity(r)
  \/ \E r \in CallIds : StartClustering(r)
  \/ \E r \in CallIds : MergeStep(r)
  \/ \E r \in CallIds : FinishClustering(r)
  \/ \E r \in CallIds : LabelStep(r)
  \/ \E r \in CallIds : OpenAILabelDone(r)
  \/ \E r \in CallIds : Finish(r)

SpecLifecycle == Init /\ [][LifecycleNext]_vars

\* ------------------------------------------------------------- properties

\* How often value v occurs in the sequence s.
Occurrences(s, v) == Cardinality({q \in DOMAIN s : s[q] = v})

\* The positions <<c, m>> of the members of a family of sequences.
Positions(family) ==
  UNION {{<<c, m>> : m \in DOMAIN family[c]} : c \in DOMAIN family}

\* How often text v occurs among the texts of a result's clusters.
ResultOccurrences(result, v) ==
  LET members == [c \in DOMAIN result.clusters |-> result.clusters[c].texts]
  IN  Cardinality({cm \in Positions(members) : members[cm[1]][cm[2]] = v})

\* The clusters of the executing performClustering call partition the index
\* set: every index is a member, once, of exactly one slot.
EnginePartition ==
  engine.run # 0 =>
    \A idx \in DOMAIN engine.clusterMap :
      Cardinality({cm \in Positions(engine.clusters) :
                     engine.clusters[cm[1]][cm[2]] = idx}) = 1

\* Every result a run has posted holds each text of the corpus the run was
\* started with as often as the corpus holds it.
ResultPartition ==
  \A q \in DOMAIN toMain :
    toMain[q].type = "result" =>
      \A v \in {TextValues[t] : t \in DOMAIN TextValues} \cup {Undefined} :
        ResultOccurrences(toMain[q].result, v) =
          Occurrences(runs[toMain[q].run].init[1].texts, v)

\* C1 (partition): at every step of performClustering the non-empty
\* clusters partition the index set 0..n-1, and in every posted result each
\* position of the corpus of the run appears in exactly one returned
\* cluster's texts, none dropped and none duplicated.
C1_Partition == EnginePartition /\ ResultPartition

\* C2 (size cap): for maxClusterSize >= 1, after every merge step of
\* performClustering no cluster has more than maxClusterSize members, and
\* every cluster of a posted result has at most as many texts as the
\* maxClusterSize of the configuration the run was requested with.
C2_SizeCap ==
  /\ (engine.run # 0 /\ engine.maxClusterSize >= 1) =>
        \A c \in DOMAIN engine.clusters :
          Len(engine.clusters[c]) <= engine.maxClusterSize
  /\ \A q \in DOMAIN toMain :
        (/\ toMain[q].type = "result"
         /\ runs[toMain[q].run].init[1].config.maxClusterSize >= 1) =>
          \A c \in DOMAIN toMain[q].result.clusters :
            Len(toMain[q].result.clusters[c].texts)
              <= runs[toMain[q].run].init[1].config.maxClusterSize

\* A merge loop has ended in which a cluster has grown to a cap of two or
\* more members and a candidate pair was refused.
C2_CapRefusedMerge ==
  /\ engine.run # 0
  /\ engine.maxClusterSize >= 2
  /\ engine.merges = <<>>
  /\ engine.mergesDone >= 1
  /\ engine.mergesDone < engine.totalPossibleMerges
  /\ \E c \in DOMAIN engine.clusters :
       Len(engine.clusters[c]) = engine.maxClusterSize

\* The runs whose runClustering call has started and not returned.
InProgress == {r \in CallIds : runs[r].pc \notin {"none", "done", "killed"}}

\* C3 (one active run): no reachable state has two runClustering
\* executions in progress in the same worker.
C3_OneActiveRun == Cardinality(InProgress) <= 1

\* The types of the entries of a run's log.
HasPosted(r, types) == \E q \in DOMAIN posted[r] : posted[r][q].type \in types

LastPosted(r) == posted[r][Len(posted[r])]

\* A run that is started with the cancelled flag already set never posts a
\* result or an error message.
NoTerminalWhenStartedCancelled ==
  \A r \in CallIds :
    runs[r].startedCancelled => ~HasPosted(r, {"result", "error"})

\* A call whose init message is still queued when cancel() is called never
\* becomes a run and posts nothing.
NothingPostedWhenCancelledEarly ==
  \A r \in earlyCancel : posted[r] = <<>> /\ runs[r].pc = "none"

\* The caller of a run cancelled before its first suspension point receives
\* neither a result nor an error: the promise of its call stays pending.
CancelledCallStaysPending ==
  \A r \in CallIds :
    (runs[r].startedCancelled \/ r \in earlyCancel) =>
      promise[r].state = "pending"

\* C4 (cancellation terminal property): if cancellation is requested before
\* the run reaches its first suspension point (the cancelled flag is set
\* when the run starts, or cancel() is called while the init message is
\* queued), no result and no error message is ever posted for that run, and
\* the caller receives neither a result nor an error.
C4_CancelledBeforeStart ==
  /\ NoTerminalWhenStartedCancelled
  /\ NothingPostedWhenCancelledEarly
  /\ CancelledCallStaysPending

\* C5 (terminal message is last): within one run the worker posts at most
\* one terminal message (result or error), never both, and posts nothing
\* after it, after an error, or after a test of the cancelled flag has found
\* it set.
C5_TerminalIsLast ==
  \A r \in CallIds :
    \A q \in DOMAIN posted[r] :
      posted[r][q].type \in {"result", "error", "cancelObserved"} =>
        q = Len(posted[r])

\* One run has ended with an error message and the other with a result.
C5_ErrorAndResult ==
  \E r1, r2 \in CallIds :
    /\ posted[r1] # <<>> /\ LastPosted(r1).type = "error"
    /\ posted[r2] # <<>> /\ LastPosted(r2).type = "result"

StageOrder ==
  <<"modelLoading", "embedding", "similarity", "clustering", "labeling",
    "complete">>

StageIndex(stage) ==
  CASE stage = "modelLoading" -> 1
    [] stage = "embedding" -> 2
    [] stage = "similarity" -> 3
    [] stage = "clustering" -> 4
    [] stage = "labeling" -> 5
    [] stage = "complete" -> 6

\* The stages of the progress events a log holds, as a set and in order.
StagesPosted(log) ==
  {log[q].progress.stage : q \in {u \in DOMAIN log : log[u].type = "progress"}}

StageSequence(log) ==
  LET events == SelectSeq(log, LAMBDA m : m.type = "progress")
  IN  [q \in DOMAIN events |-> events[q].progress.stage]

\* The stages of successive progress events of a run never go backwards.
StagesInOrder ==
  \A r \in CallIds :
    LET stages == StageSequence(posted[r])
    IN  \A q \in 2..Len(stages) :
          StageIndex(stages[q - 1]) <= StageIndex(stages[q])

\* This step posts the first event of the stage for run r.
StageStarts(r, stage) ==
  stage \notin StagesPosted(posted[r]) /\ stage \in StagesPosted(posted'[r])

\* What a step that posts the first event of a stage for run r must find:
\* the output of the stage before it is complete (every text has its
\* vector, the matrix has a row for every vector, no candidate pair is left,
\* every cluster has its label).
InputsReady(r) ==
  /\ StageStarts(r, "embedding") => runs[r].pc = "embed"
  /\ StageStarts(r, "similarity") =>
       Len(embeddings) = Len(runs[r].inputTexts)
  /\ StageStarts(r, "clustering") =>
       DOMAIN similarityMatrix = 0..(Len(runs[r].inputTexts) - 1)
  /\ StageStarts(r, "labeling") =>
       engine.run = r /\ engine.merges = <<>>
  /\ StageStarts(r, "complete") =>
       \A c \in DOMAIN runs[r].labeledClusters :
         "label" \in DOMAIN runs[r].labeledClusters[c]

\* Every step that posts for a run finds the inputs of the stage it starts.
StageInputsReady ==
  \A r \in CallIds : posted'[r] # posted[r] => InputsReady(r)

\* C6 (stage order): within one run the stage of successive progress events
\* never goes backwards in the order modelLoading, embedding, similarity,
\* clustering, labeling, complete, and the first event of a stage is posted
\* only after the previous stage's output is fully computed.
C6_StageOrder == []StagesInOrder /\ [][StageInputsReady]_vars

\* A run over a corpus of more than one text has posted events of all six
\* stages.
C6_AllStagesPosted ==
  \E r \in CallIds :
    /\ StagesPosted(posted[r]) = {StageOrder[k] : k \in DOMAIN StageOrder}
    /\ Len(runs[r].init[1].texts) > 1

\* A request the specification calls a configuration error.  (Every
\* configuration of Configs has a similarityThreshold inside (0, 1).)
InvalidRequest(cfg, txts) ==
  \/ txts = <<>>
  \/ cfg.similarityThreshold <= 0
  \/ cfg.similarityThreshold >= 100
  \/ cfg.maxClusterSize < 1

\* C7 (configuration errors are rejected up front): a run requested with an
\* empty corpus, a similarityThreshold outside (0,1) or a maxClusterSize < 1
\* is refused before any progress event is emitted and before any stage
\* starts (no init message is posted for it, no run is started for it), and
\* it never yields a result.
C7_InvalidRequestRefused ==
  /\ \A q \in DOMAIN toWorker :
       toWorker[q].type = "init" =>
         ~InvalidRequest(toWorker[q].config, toWorker[q].texts)
  /\ \A r \in CallIds :
       (runs[r].init # <<>>
          /\ InvalidRequest(runs[r].init[1].config, runs[r].init[1].texts))
         => posted[r] = <<>>

\* The messages of the given type that run r has posted.
PostedOfType(r, type) == {q \in DOMAIN posted[r] : posted[r][q].type = type}

\* The error message of run r has been handed to the main thread's handler.
ErrorDelivered(r) ==
  /\ runs[r].pc = "done"
  /\ PostedOfType(r, "error") # {}
  /\ \A q \in DOMAIN toMain : ~(toMain[q].type = "error" /\ toMain[q].run = r)

\* C8 (a fatal failure aborts the run): if a stage of runClustering throws,
\* the worker posts exactly one error message and no result message for that
\* run, and once that message is delivered the promise of the run's
\* processTexts call is rejected with that error.
C8_FailureRejectsPromise ==
  \A r \in CallIds :
    runs[r].failedIn # "" =>
      /\ Cardinality(PostedOfType(r, "error")) = 1
      /\ PostedOfType(r, "result") = {}
      /\ ErrorDelivered(r) =>
           /\ promise[r].state = "rejected"
           /\ promise[r].by = r
           /\ promise[r].error = TypeErrorMessage

\* The stage in which each throwing function of the model is called.
StageOfFailure(where) ==
  IF where \in {"truncateText", "generateOpenAILabel",
                "generateFrequencyBasedLabel"}
    THEN "labeling" ELSE "none"

\* C9 (the error names the failing stage): the error message of a run that
\* failed in stage S carries S.
C9_ErrorNamesStage ==
  \A q \in DOMAIN toMain :
    toMain[q].type = "error" =>
      /\ "stage" \in DOMAIN toMain[q]
      /\ toMain[q].stage = StageOfFailure(runs[toMain[q].run].failedIn)

\* C10 (labeling-delegation failure never aborts the run): when the
\* delegated labeling call of a multi-member cluster fails, the run goes on
\* and posts a result, not an error.
C10_LabelFailureFallsBack ==
  \A r \in CallIds :
    runs[r].failedIn = "generateOpenAILabel" =>
      PostedOfType(r, "error") = {}

\* The candidate pairs of a matrix in the one order that its entries fix:
\* higher similarity first and, among equal similarities, lower i first,
\* then lower j.
PairBefore(matrix, p, q) ==
  \/ matrix[p[1]][p[2]] > matrix[q[1]][q[2]]
  \/ /\ matrix[p[1]][p[2]] = matrix[q[1]][q[2]]
     /\ (p[1] < q[1] \/ (p[1] = q[1] /\ p[2] < q[2]))

PairOrder(matrix, threshold) ==
  LET pairs == {p \in (DOMAIN matrix) \X (DOMAIN matrix) :
                  /\ p[1] < p[2]
                  /\ matrix[p[1]][p[2]] # NaN
                  /\ matrix[p[1]][p[2]] >= threshold}
      rank(p) == Cardinality({q \in pairs : PairBefore(matrix, q, p)}) + 1
  IN  [k \in 1..Cardinality(pairs) |-> CHOOSE p \in pairs : rank(p) = k]

\* The slot of a family of clusters that holds index idx.
SlotOf(family, idx) ==
  CHOOSE c \in DOMAIN family : \E m \in DOMAIN family[c] : family[c][m] = idx

\* The clusters that the first k pairs of an order leave, starting from
\* singletons: a pair in two slots whose sizes sum to at most the cap joins
\* the second slot's members to the end of the first's when the first is at
\* least as long, and the other way round when it is not.
RECURSIVE ClustersAfter(_, _, _, _)
ClustersAfter(n, order, k, cap) ==
  IF k = 0 THEN [c \in 0..(n - 1) |-> <<c>>]
  ELSE LET before == ClustersAfter(n, order, k - 1, cap)
           a == SlotOf(before, order[k][1])
           b == SlotOf(before, order[k][2])
           into == IF Len(before[a]) >= Len(before[b]) THEN a ELSE b
           from == IF into = a THEN b ELSE a
       IN  IF a = b \/ Len(before[a]) + Len(before[b]) > cap
             THEN before
             ELSE [c \in DOMAIN before |->
                     IF c = into THEN before[into] \o before[from]
                     ELSE IF c = from THEN <<>> ELSE before[c]]

\* C11 (determinism of the clustering engine): what performClustering holds
\* and returns is a function of its three arguments alone, also when
\* candidate pairs have equal similarity: the candidates still to be
\* processed are the tail of the one order the matrix fixes, and the
\* clusters (slots, hence ids, and member order) are those that the
\* candidates processed so far leave.
C11_Deterministic ==
  engine.run # 0 =>
    LET order == PairOrder(engine.similarityMatrix, engine.threshold)
        done == Len(order) - Len(engine.merges)
    IN  /\ Len(order) = engine.totalPossibleMerges
        /\ \A k \in DOMAIN engine.merges :
             <<engine.merges[k].i, engine.merges[k].j>> = order[done + k]
        /\ engine.clusters =
             ClustersAfter(Cardinality(DOMAIN engine.similarityMatrix), order,
                           done, engine.maxClusterSize)

\* A merge loop has ended over candidates of which two had the same
\* similarity, one of them merged and one refused.
C11_TiedCandidates ==
  /\ engine.run # 0
  /\ engine.merges = <<>>
  /\ engine.mergesDone >= 1
  /\ engine.mergesDone < engine.totalPossibleMerges
  /\ LET order == PairOrder(engine.similarityMatrix, engine.threshold)
     IN  \E k \in 2..Len(order) :
           engine.similarityMatrix[order[k][1]][order[k][2]] =
             engine.similarityMatrix[order[k - 1][1]][order[k - 1][2]]

\* The pairs i < j of the executing performClustering call whose similarity
\* is at least the threshold and that are in different clusters.
SeparatedPairs ==
  {p \in (DOMAIN engine.similarityMatrix) \X (DOMAIN engine.similarityMatrix) :
     /\ p[1] < p[2]
     /\ engine.similarityMatrix[p[1]][p[2]] # NaN
     /\ engine.similarityMatrix[p[1]][p[2]] >= engine.threshold
     /\ SlotOf(engine.clusters, p[1]) # SlotOf(engine.clusters, p[2])}

\* C12 (threshold soundness up to the cap): when the merge loop of
\* performClustering has ended, two items i < j with matrix[i][j] >=
\* threshold are in different clusters only if the sizes of the two
\* clusters that hold them sum to more than maxClusterSize.
C12_ThresholdSound ==
  (engine.run # 0 /\ engine.merges = <<>>) =>
    \A p \in SeparatedPairs :
      Len(engine.clusters[SlotOf(engine.clusters, p[1])])
        + Len(engine.clusters[SlotOf(engine.clusters, p[2])])
          > engine.maxClusterSize

\* A merge loop has ended with a pair at or above the threshold separated
\* by a cap that allowed at least one merge.
C12_SeparatedByCap ==
  /\ engine.run # 0
  /\ engine.merges = <<>>
  /\ engine.mergesDone >= 1
  /\ SeparatedPairs # {}

\* The init messages waiting in the worker's queue.
InitMessages == {q \in DOMAIN toWorker : toWorker[q].type = "init"}

\* The values of a sequence.
Values(s) == {s[q] : q \in DOMAIN s}

\* C13 (sampling): the texts of every init message are the whole corpus of
\* the call in its original order when samplePercentage is 100, and when it
\* is below 100 they are min(len, max(10, floor(len * samplePercentage /
\* 100))) texts taken from distinct positions of the corpus: each is a text
\* of the corpus and occurs at most as often as the corpus holds it.
C13_Sampling ==
  \A q \in InitMessages :
    LET corpus == promise[toWorker[q].call].texts
        sample == toWorker[q].texts
        percentage == toWorker[q].config.samplePercentage
        floor == (Len(corpus) * percentage) \div 100
        size == IF floor >= 10 THEN floor ELSE 10
    IN  /\ percentage = 100 => sample = corpus
        /\ percentage < 100 =>
             /\ Len(sample) = (IF Len(corpus) <= size THEN Len(corpus) ELSE size)
             /\ \A v \in Values(sample) :
                  /\ v \in Values(corpus)
                  /\ Occurrences(sample, v) <= Occurrences(corpus, v)

\* A sample of more than ten texts, fewer than the corpus holds and not in
\* the order of the corpus, waits in the worker's queue.
C13_ElevenSampled ==
  \E q \in InitMessages :
    LET corpus == promise[toWorker[q].call].texts
        sample == toWorker[q].texts
    IN  /\ toWorker[q].config.samplePercentage < 100
        /\ Len(sample) > 10
        /\ Len(sample) < Len(corpus)
        /\ sample # SubSeq(corpus, 1, Len(sample))

\* The runs whose embedding stage is under way or has just ended while the
\* cancelled flag is set.
CancelledWhileEmbedding ==
  {r \in CallIds : cancelled /\ runs[r].pc \in {"batchWait", "similarity"}}

\* A run waiting for an embedding batch has posted events of the stages
\* modelLoading and embedding and of no other; a run of
\* CancelledWhileEmbedding has posted no event of a later stage and no
\* result.
EmbeddingEventsOnly ==
  \A r \in CallIds :
    (runs[r].pc = "batchWait" \/ r \in CancelledWhileEmbedding) =>
      /\ StagesPosted(posted[r]) = {"modelLoading", "embedding"}
      /\ ~HasPosted(r, {"result"})

\* A run of CancelledWhileEmbedding posts nothing more and goes nowhere but
\* to its end; a run that has ended posts nothing.
NothingAfterCancel ==
  \A r \in CallIds :
    /\ r \in CancelledWhileEmbedding =>
         /\ runs'[r].pc \in {runs[r].pc, "similarity", "done", "killed"}
         /\ posted'[r] \in {posted[r], Observed(r, posted[r])}
    /\ runs[r].pc \in {"done", "killed"} => posted'[r] = posted[r]

\* C14 (cancellation during embedding): a run whose cancellation is
\* requested after its embedding stage has started and before it completes
\* has emitted modelLoading and embedding progress events and afterwards
\* emits no similarity, clustering, labeling or complete event and no
\* result.
C14_CancelDuringEmbedding == []EmbeddingEventsOnly /\ [][NothingAfterCancel]_vars

\* A run of the OpenAI provider over a corpus that is not empty, started
\* with the flag clear, has ended at the first test of the flag after its
\* embedding batches.
C14_EndedAfterEmbedding ==
  \E r \in CallIds :
    /\ runs[r].pc = "done"
    /\ ~runs[r].startedCancelled
    /\ runs[r].init[1].config.processingMethod = "openai"
    /\ runs[r].init[1].texts # <<>>
    /\ LastPosted(r).type = "cancelObserved"
    /\ StagesPosted(posted[r]) = {"modelLoading", "embedding"}

\* A 'cancel' message has arrived in the worker's queue and is not handled
\* yet.
CancelArrived == \E q \in DOMAIN toWorker : toWorker[q].type = "cancel"

\* Run r is executing its similarity stage over at least one pair, or the
\* merge loop of its clustering stage.
StageExecuting(r) ==
  /\ active = r
  /\ \/ runs[r].pc = "similarity" /\ Len(embeddings) >= 2
     \/ runs[r].pc = "merge"

\* This step ends the stage of run r without a test of the flag that found
\* it set.
StageCompletesUnobserved(r) ==
  /\ runs'[r].pc \in {"clustering", "clustered"}
  /\ ~\E q \in DOMAIN posted'[r] : posted'[r][q].type = "cancelObserved"

\* C15 (bounded response to cancellation): a cancel request that arrives
\* while the similarity or the clustering stage of a run is executing is
\* observed (the worker yields, handles the message and tests the flag)
\* before that stage completes.
C15_CancelObservedInStage ==
  [][\A r \in CallIds :
       (CancelArrived /\ StageExecuting(r)) => ~StageCompletesUnobserved(r)]_vars

\* The entries of a run's log that are progress events of stage 'complete'.
CompleteEvents(r) ==
  {q \in DOMAIN posted[r] :
     posted[r][q].type = "progress" /\ posted[r][q].progress.stage = "complete"}

\* C16 (success ending): every run that has posted a result has posted
\* exactly one progress event of stage 'complete', with percent 100, as the
\* entry right before the result; and a run that has posted a 'complete'
\* event has posted its result right after it in the step that ended it,
\* has not thrown and has found the cancelled flag set at none of its tests.
C16_CompleteThenResult ==
  \A r \in CallIds :
    /\ \A q \in DOMAIN posted[r] :
         posted[r][q].type = "result" =>
           /\ CompleteEvents(r) = {q - 1}
           /\ posted[r][q - 1].progress.percent = Frac(100, 1)
    /\ \A q \in CompleteEvents(r) :
         /\ q + 1 = Len(posted[r])
         /\ posted[r][q + 1].type = "result"
         /\ ~HasPosted(r, {"error", "cancelObserved"})
         /\ runs[r].failedIn = ""
         /\ runs[r].pc \in {"done", "killed"}

\* A run over a corpus that is not empty has posted its result.
C16_ResultPosted ==
  \E r \in CallIds :
    /\ runs[r].init # <<>>
    /\ runs[r].init[1].texts # <<>>
    /\ HasPosted(r, {"result"})
    /\ CompleteEvents(r) # {}

\* A matrix with an entry that is NaN.
HoldsNaN(matrix) ==
  \E i \in DOMAIN matrix : \E j \in DOMAIN matrix[i] : matrix[i][j] = NaN

\* Neither the matrix runClustering hands to performClustering nor the one
\* an executing performClustering call was given holds NaN.
NoNaNReachesClustering ==
  ~HoldsNaN(similarityMatrix) /\ ~HoldsNaN(engine.similarityMatrix)

\* A vector of magnitude 0.
ZeroMagnitude(v) == \A k \in DOMAIN v : v[k] = 0

\* The step that computes the matrix stores 0 for every pair of which an
\* embedding has magnitude 0.
ZeroPairsHoldZero ==
  \A r \in CallIds :
    (runs[r].pc = "similarity" /\ runs'[r].pc = "clustering") =>
      \A i, j \in DOMAIN similarityMatrix' :
        (i # j /\ (ZeroMagnitude(embeddings[i + 1])
                     \/ ZeroMagnitude(embeddings[j + 1]))) =>
          similarityMatrix'[i][j] = 0

\* C17 (zero-magnitude vectors): for every pair (i, j) of which at least
\* one embedding has magnitude 0 the similarity matrix holds 0 at [i][j]
\* and [j][i], and no NaN entry ever reaches performClustering.
C17_ZeroMagnitude == []NoNaNReachesClustering /\ [][ZeroPairsHoldZero]_vars

\* The graph on the indices of a matrix whose edges are the pairs i < j
\* with matrix[i][j] >= threshold.
Linked(matrix, threshold, a, b) ==
  /\ a # b
  /\ matrix[Min(a, b)][Max(a, b)] # NaN
  /\ matrix[Min(a, b)][Max(a, b)] >= threshold

\* The indices within k edges of a set of indices.
RECURSIVE Within(_, _, _, _)
Within(matrix, threshold, from, k) ==
  IF k = 0 THEN from
  ELSE LET near == Within(matrix, threshold, from, k - 1)
       IN  near \cup {b \in DOMAIN matrix :
                        \E a \in near : Linked(matrix, threshold, a, b)}

ConnectedComponents(matrix, threshold) ==
  {Within(matrix, threshold, {a}, Cardinality(DOMAIN matrix)) : a \in DOMAIN matrix}

\* C18 (connected components when the cap is not binding): when
\* maxClusterSize is at least the number of items, the clusters that the
\* merge loop of performClustering leaves are, as sets of indices, the
\* connected components of the graph on 0..n-1 whose edges are the pairs
\* with matrix[i][j] >= threshold.
C18_ConnectedComponents ==
  (/\ engine.run # 0
   /\ engine.merges = <<>>
   /\ engine.maxClusterSize >= Cardinality(DOMAIN engine.similarityMatrix)) =>
    {Values(engine.clusters[c]) :
       c \in {d \in DOMAIN engine.clusters : engine.clusters[d] # <<>>}}
      = ConnectedComponents(engine.similarityMatrix, engine.threshold)

\* A merge loop has ended under a cap that is not binding with a cluster
\* that holds two items whose similarity is below the threshold.
C18_JoinedThroughThird ==
  /\ engine.run # 0
  /\ engine.merges = <<>>
  /\ engine.maxClusterSize >= Cardinality(DOMAIN engine.similarityMatrix)
  /\ \E c \in DOMAIN engine.clusters :
       \E a, b \in Values(engine.clusters[c]) :
         a < b /\ ~Linked(engine.similarityMatrix, engine.threshold, a, b)

\* This step starts run r in a worker in which no run is in progress and an
\* earlier run has ended at a test of the cancelled flag.
StartsAfterCancelledRun(r) ==
  /\ runs[r].pc = "none"
  /\ runs'[r].pc # "none"
  /\ InProgress = {}
  /\ \E earlier \in CallIds :
       runs[earlier].pc = "done" /\ HasPosted(earlier, {"cancelObserved"})

\* C19 (no state persists across runs): a run started by an init message
\* after an earlier run of the same worker was cancelled is a fresh run: it
\* does not start with the cancellation flag of the earlier run set (and
\* so, absent a cancellation of its own or a failure, goes on to post a
\* result).
C19_FreshRun ==
  [][\A r \in CallIds :
       StartsAfterCancelledRun(r) => ~runs'[r].startedCancelled]_vars

\* C20 (text-to-cluster mapping): in every posted result, for every
\* position of the processed corpus, mapping[text at the position] is the
\* id of the returned cluster that holds the position - also when two
\* positions hold the same string - and the keys of mapping are exactly the
\* texts of the processed corpus.
C20_MappingByPosition ==
  \A q \in DOMAIN toMain :
    toMain[q].type = "result" =>
      LET result == toMain[q].result
      IN  /\ \A c \in DOMAIN result.clusters :
               \A m \in DOMAIN result.clusters[c].texts :
                 result.mapping[result.clusters[c].texts[m]] = result.clusters[c].id
          /\ DOMAIN result.mapping = Values(runs[toMain[q].run].init[1].texts)

\* The sizes of the clusters of a result.
ClusterSizes(result) ==
  [c \in DOMAIN result.clusters |-> Len(result.clusters[c].texts)]

RECURSIVE SumOf(_, _)
SumOf(sizes, k) == IF k = 0 THEN 0 ELSE sizes[k] + SumOf(sizes, k - 1)

\* The statistics of a result agree with its clusters and with the corpus
\* and configuration of the run that posted it.
StatsAgree(result, init) ==
  LET sizes == ClusterSizes(result)
      stats == result.stats
  IN  /\ stats.totalClusters = Len(result.clusters)
      /\ stats.totalTexts = SumOf(sizes, Len(sizes))
      /\ stats.totalTexts = Len(init.texts)
      /\ stats.singletonCount = Cardinality({c \in DOMAIN sizes : sizes[c] = 1})
      /\ \E c \in DOMAIN sizes : sizes[c] = stats.largestClusterSize
      /\ \A c \in DOMAIN sizes : sizes[c] <= stats.largestClusterSize
      /\ stats.largestClusterSize <= init.config.maxClusterSize
      /\ stats.averageClusterSize.den # 0
      /\ stats.averageClusterSize.num * stats.totalClusters
           = stats.totalTexts * stats.averageClusterSize.den

\* C21 (result statistics): in every posted result totalClusters is the
\* number of returned clusters, totalTexts the sum of their sizes and the
\* number of processed corpus positions, singletonCount the number of
\* clusters of size 1, largestClusterSize the maximum cluster size (at most
\* maxClusterSize), and averageClusterSize * totalClusters = totalTexts.
C21_StatsAgree ==
  \A q \in DOMAIN toMain :
    toMain[q].type = "result" =>
      StatsAgree(toMain[q].result, runs[toMain[q].run].init[1])

\* The same for the runs over a corpus that is not empty.
StatsAgreeUnlessEmpty ==
  \A q \in DOMAIN toMain :
    (toMain[q].type = "result" /\ runs[toMain[q].run].init[1].texts # <<>>) =>
      StatsAgree(toMain[q].result, runs[toMain[q].run].init[1])

\* this.config is the object the caller handed to initialize (line 69), not
\* a copy: its field values are the caller's.  A step leaves caller-owned
\* data alone when the corpus of every call made so far is what it was, and
\* the configuration object has the values it had unless this step is an
\* initialize call, which hands over another object.
CallerDataUnchanged ==
  /\ \A k \in CallIds :
       promise[k].state # "none" => promise'[k].texts = promise[k].texts
  /\ (config # <<>> /\ workersCreated' = workersCreated) => config' = config

\* C22 (no mutation of caller-owned data): after any sequence of
\* initialize, processTexts, cancel and dispose the caller's texts array
\* has the same elements in the same order and the caller's config object
\* has the same field values as before.
C22_CallerDataUnchanged == [][CallerDataUnchanged]_vars

\* The slots of the clusters array that hold members, in increasing order.
KeptSlots(cl) ==
  LET n == Cardinality(DOMAIN cl)
      slots == [k \in 1..n |-> k - 1]
  IN  SelectSeq(slots, LAMBDA c : Len(cl[c]) > 0)

\* What performClustering returns when its loop has ended in engine state e.
Returned(e) == FinalClusters(e.clusters, texts)

PrunedAndNumbered(e) ==
  LET final == Returned(e)
      n == Cardinality(DOMAIN e.similarityMatrix)
      k == Len(final)
  IN  /\ k = n - e.mergesDone
      /\ k = Len(KeptSlots(e.clusters))
      /\ \A index \in 1..k :
           /\ final[index].texts # <<>>
           /\ final[index].id = index - 1
           /\ final[index].representativeText =
                TextAt(texts, KeptSlots(e.clusters)[index])
           /\ final[index].representativeText = final[index].texts[1]
           /\ Len(final[index].texts) = Len(e.clusters[KeptSlots(e.clusters)[index]])

\* C23 (pruning and ids): every cluster returned by performClustering is
\* non-empty, the ids are the integers 0..k-1 in order with k the number of
\* items minus the merges performed, and each cluster's representativeText
\* is the text of the item its slot started with, which is the first of the
\* cluster's texts.
C23_PrunedAndNumbered ==
  \A r \in CallIds :
    (runs[r].pc = "clustered" /\ engine.run = r) => PrunedAndNumbered(engine)

\* A run whose loop has ended with a merged cluster, an emptied slot below
\* a kept one, and so at least two clusters returned.
C23_GapInSlots ==
  \E r \in CallIds :
    /\ runs[r].pc = "clustered"
    /\ engine.run = r
    /\ engine.mergesDone >= 1
    /\ \E c, d \in DOMAIN engine.clusters :
         c < d /\ engine.clusters[c] = <<>> /\ engine.clusters[d] # <<>>

\* The members of slot c of a family of clusters.
Members(family, c) == {family[c][m] : m \in DOMAIN family[c]}

\* The effect of one iteration of the merge loop, from engine state e to
\* engine state f, on the candidate at the head of e.merges: Ci and Cj are
\* the slots that hold the pair's items.
MergeEffect(e, f) ==
  LET i == Head(e.merges).i
      j == Head(e.merges).j
      Ci == SlotOf(e.clusters, i)
      Cj == SlotOf(e.clusters, j)
  IN  IF Ci # Cj /\ Len(e.clusters[Ci]) + Len(e.clusters[Cj]) <= e.maxClusterSize
        THEN \E into, from \in {Ci, Cj} :
               /\ into # from
               /\ Len(e.clusters[from]) <= Len(e.clusters[into])
               /\ f.clusters[into] = e.clusters[into] \o e.clusters[from]
               /\ f.clusters[from] = <<>>
               /\ \A c \in DOMAIN e.clusters \ {into, from} :
                    f.clusters[c] = e.clusters[c]
               /\ \A x \in DOMAIN e.clusterMap :
                    f.clusterMap[x] = IF x \in Members(e.clusters, from)
                                        THEN into ELSE e.clusterMap[x]
               /\ f.mergesDone = e.mergesDone + 1
        ELSE /\ f.clusters = e.clusters
             /\ f.clusterMap = e.clusterMap
             /\ f.mergesDone = e.mergesDone

\* C24 (merge step): for a candidate whose items are in two clusters whose
\* sizes sum to at most maxClusterSize, the absorbed cluster is never the
\* larger one, the absorbing cluster becomes its old members followed by
\* the absorbed members, the absorbed slot becomes empty, and every other
\* cluster and every other item's assignment is unchanged; for a candidate
\* inside one cluster or over the cap nothing changes.
C24_MergeStep ==
  [][(engine.run # 0 /\ engine'.run = engine.run /\ engine' # engine)
       => MergeEffect(engine, engine')]_vars

\* A merge in which the first item's cluster was the smaller one and was
\* absorbed: the slot's last member is an item below the slot's own.
C24_AbsorbedFirstItem ==
  /\ engine.run # 0
  /\ \E c \in DOMAIN engine.clusters :
       /\ Len(engine.clusters[c]) >= 3
       /\ engine.clusters[c][Len(engine.clusters[c])] < c

\* Candidate a is enumerated before candidate b by the loops of lines
\* 462-463.
EnumeratedBefore(a, b) == a.i < b.i \/ (a.i = b.i /\ a.j < b.j)

\* The candidates still to be examined are pairs i < j at or above the
\* threshold, each with the matrix's similarity, in non-increasing
\* similarity order and, among equal similarities, in enumeration order.
CandidatesInOrder(e) ==
  /\ \A k \in DOMAIN e.merges :
       /\ e.merges[k].i \in DOMAIN e.similarityMatrix
       /\ e.merges[k].j \in DOMAIN e.similarityMatrix
       /\ e.merges[k].i < e.merges[k].j
       /\ e.merges[k].similarity = e.similarityMatrix[e.merges[k].i][e.merges[k].j]
       /\ e.merges[k].similarity # NaN
       /\ e.merges[k].similarity >= e.threshold
  /\ \A k, q \in DOMAIN e.merges :
       k < q =>
         \/ e.merges[k].similarity > e.merges[q].similarity
         \/ /\ e.merges[k].similarity = e.merges[q].similarity
            /\ EnumeratedBefore(e.merges[k], e.merges[q])

\* Every pair i < j at or above the threshold is among the candidates of e.
AllCandidates(e) ==
  \A i, j \in DOMAIN e.similarityMatrix :
    (i < j /\ e.similarityMatrix[i][j] # NaN
           /\ e.similarityMatrix[i][j] >= e.threshold)
      => \E k \in DOMAIN e.merges : e.merges[k].i = i /\ e.merges[k].j = j

\* A step that starts the engine starts it with every candidate; a later
\* step of the engine removes the first candidate and adds none.
ExaminedOnce ==
  /\ (engine.run = 0 /\ engine'.run # 0)
       => (/\ AllCandidates(engine')
           /\ Len(engine'.merges) = engine'.totalPossibleMerges)
  /\ (engine.run # 0 /\ engine'.run = engine.run /\ engine' # engine)
       => (/\ engine.merges # <<>>
           /\ engine'.merges = Tail(engine.merges))

\* C25 (candidate processing): the candidate list is exactly the pairs
\* i < j with matrix[i][j] >= threshold; the candidates are processed in
\* non-increasing similarity order with ties in enumeration order; every
\* iteration removes the first candidate and adds none, so each candidate
\* is examined once and a pair skipped because of the cap is not retried.
C25_CandidateProcessing ==
  /\ [](engine.run # 0 => CandidatesInOrder(engine))
  /\ [][ExaminedOnce]_vars

\* Candidates remain while a pair that was examined earlier, because its
\* similarity is higher than that of a remaining candidate enumerated
\* before it, stays separated by the cap.
C25_SkippedNotRetried ==
  /\ engine.run # 0
  /\ engine.merges # <<>>
  /\ \E p \in SeparatedPairs :
       /\ \A k \in DOMAIN engine.merges :
            <<engine.merges[k].i, engine.merges[k].j>> # p
       /\ Len(engine.clusters[SlotOf(engine.clusters, p[1])])
            + Len(engine.clusters[SlotOf(engine.clusters, p[2])])
              > engine.maxClusterSize
       /\ \E k \in DOMAIN engine.merges :
            /\ EnumeratedBefore(engine.merges[k], [i |-> p[1], j |-> p[2]])
            /\ engine.merges[k].similarity
                 < engine.similarityMatrix[p[1]][p[2]]

\* clusterMap.get(x) is the slot that holds x, and that slot starts with
\* the item it was created for.
AssignedToHolder(e) ==
  \A x \in DOMAIN e.clusterMap :
    LET c == e.clusterMap[x]
    IN  /\ c \in DOMAIN e.clusters
        /\ e.clusters[c] # <<>>
        /\ x \in Members(e.clusters, c)
        /\ e.clusters[c][1] = c

\* C26 (assignment map consistency): at the start of every iteration of
\* the merge loop, and when the loop has ended, every item's clusterMap
\* entry is the slot whose cluster contains the item; that cluster is
\* non-empty and its first element is the slot's index, so that no item
\* points to an emptied slot.
C26_AssignedToHolder ==
  engine.run # 0 =>
    /\ DOMAIN engine.clusterMap = DOMAIN engine.similarityMatrix
    /\ AssignedToHolder(engine)

\* An iteration starts after two merges or more, with a cluster that holds
\* two items besides the one its slot was created for.
C26_AfterTwoMerges ==
  /\ engine.run # 0
  /\ engine.merges # <<>>
  /\ engine.mergesDone >= 2
  /\ \E x \in DOMAIN engine.clusterMap :
       /\ engine.clusterMap[x] # x
       /\ \E y \in DOMAIN engine.clusterMap :
            y # x /\ y # engine.clusterMap[x]
                  /\ engine.clusterMap[y] = engine.clusterMap[x]

\* The embedding progress events of generateEmbeddings that run r has
\* posted, in order (the event of runClustering that announces the stage
\* has no currentItem).
BatchEvents(r) ==
  SelectSeq(posted[r], LAMBDA m :
    /\ m.type = "progress"
    /\ m.progress.stage = "embedding"
    /\ "currentItem" \in DOMAIN m.progress)

\* The largest batch of a provider.
AtMost(provider) == IF provider = "browser" THEN 32 ELSE 100

\* The number of batches of at most size texts that n texts make.
BatchesOf(n, size) == (n + size - 1) \div size

\* Run r has posted one event for each of its first count batches, with
\* the batch's start offset and the number of texts.
OneEventPerBatch(r, count) ==
  /\ Len(BatchEvents(r)) = count
  /\ \A k \in 1..count :
       /\ BatchEvents(r)[k].progress.currentItem
            = (k - 1) * AtMost(runs[r].provider)
       /\ BatchEvents(r)[k].progress.totalItems = Len(runs[r].inputTexts)

\* While a batch is awaited the vectors so far are those of the texts
\* before the batch, which starts at a multiple of the batch size; when the
\* stage ends without the flag set there is one vector per text.
BatchesComplete ==
  \A r \in CallIds :
    LET run == runs[r]
        n == Len(run.inputTexts)
        size == AtMost(run.provider)
    IN  /\ run.pc = "batchWait" =>
             /\ run.i < n
             /\ run.i % size = 0
             /\ Len(run.result) = run.i
             /\ OneEventPerBatch(r, run.i \div size + 1)
        /\ (run.pc = "similarity" /\ ~cancelled) =>
             /\ Len(embeddings) = n
             /\ OneEventPerBatch(r, BatchesOf(n, size))

\* A batch that ends appends between one and the provider's batch size of
\* vectors to those of the batches before it.
BatchAppended ==
  \A r \in CallIds :
    (runs[r].pc = "batchWait" /\ runs'[r].pc # "batchWait") \/
    (runs[r].pc = "batchWait" /\ runs'[r].result # runs[r].result) =>
      LET before == runs[r].result
          after == IF runs'[r].pc = "batchWait" THEN runs'[r].result
                   ELSE embeddings'
      IN  \/ runs'[r].pc \notin {"batchWait", "similarity"}
          \/ /\ Len(after) - Len(before) \in 1..AtMost(runs[r].provider)
             /\ SubSeq(after, 1, Len(before)) = before

\* C27 (embedding stage): for a run that is not cancelled,
\* generateEmbeddings returns one vector per input text, produced in
\* consecutive batches of at most 32 (browser) or 100 (openai) texts, with
\* one embedding progress event per batch whose currentItem is the batch's
\* start offset and whose totalItems is the number of texts.
C27_EmbeddingStage == []BatchesComplete /\ [][BatchAppended]_vars

\* The OpenAI provider has returned the vectors of more than one batch, the
\* last batch shorter than the first.
C27_TwoBatches ==
  \E r \in CallIds :
    /\ runs[r].pc = "similarity"
    /\ ~cancelled
    /\ runs[r].provider = "openai"
    /\ Len(embeddings) > 100
    /\ Len(embeddings) % 100 # 0
    /\ Len(BatchEvents(r)) = 2

\* A 'cancel' message has been posted: it waits in the worker's queue or
\* has set the flag.
CancelRequested ==
  cancelled \/ \E q \in DOMAIN toWorker : toWorker[q].type = "cancel"

\* An iteration of the merge loop leaves one candidate fewer.
RemovesOneCandidate ==
  (engine.run # 0 /\ engine'.run = engine.run /\ engine' # engine)
    => Len(engine'.merges) = Len(engine.merges) - 1

\* C28 (termination): the merge loop ends after at most as many iterations
\* as there are candidate pairs, because the candidates left never exceed
\* the candidate pairs and every iteration removes one; and, the worker's
\* steps being fair, every run on a non-empty corpus that is neither
\* cancelled nor failing eventually posts a result.
C28_Terminates ==
  /\ [](engine.run # 0 =>
         /\ engine.totalPossibleMerges =
              Len(CandidatePairs(engine.similarityMatrix, engine.threshold))
         /\ Len(engine.merges) <= engine.totalPossibleMerges)
  /\ [][RemovesOneCandidate]_vars
  /\ \A r \in CallIds :
       (\E q \in DOMAIN toWorker :
          /\ toWorker[q].type = "init"
          /\ toWorker[q].call = r
          /\ toWorker[q].texts # <<>>)
         ~> \/ HasPosted(r, {"result"})
            \/ HasPosted(r, {"error"})
            \/ CancelRequested

\* A run that nobody cancelled has posted its result after a merge loop
\* that merged a candidate and left two clusters or more.
C28_ResultAfterSkips ==
  \E q \in DOMAIN toMain :
    /\ toMain[q].type = "result"
    /\ ~CancelRequested
    /\ \E c, d \in DOMAIN toMain[q].result.clusters :
         /\ c # d
         /\ Len(toMain[q].result.clusters[c].texts) >= 2
         /\ toMain[q].result.clusters[c].texts[1]
              = toMain[q].result.clusters[d].texts[1]

\* The items of a set that chains of at most k links between items of the
\* set connect to an item of from.
RECURSIVE ChainedWithin(_, _, _, _, _)
ChainedWithin(matrix, threshold, items, from, k) ==
  IF k = 0 THEN from
  ELSE LET near == ChainedWithin(matrix, threshold, items, from, k - 1)
       IN  near \cup {b \in items :
                        \E a \in near : Linked(matrix, threshold, a, b)}

\* Any two items of one cluster are connected by a chain of items of that
\* cluster in which consecutive items have a similarity at or above the
\* threshold.
ClustersAreChained(e) ==
  \A c \in DOMAIN e.clusters :
    \A x \in Members(e.clusters, c) :
      Members(e.clusters, c) =
        ChainedWithin(e.similarityMatrix, e.threshold, Members(e.clusters, c),
                      {x}, Len(e.clusters[c]))

\* A step that merges two clusters examines a candidate whose two items
\* are one in each of them and have a similarity at or above the threshold.
MergedOnCandidate ==
  (engine.run # 0 /\ engine'.run = engine.run
                  /\ engine'.clusters # engine.clusters) =>
    LET i == Head(engine.merges).i
        j == Head(engine.merges).j
    IN  /\ Linked(engine.similarityMatrix, engine.threshold, i, j)
        /\ SlotOf(engine.clusters, i) # SlotOf(engine.clusters, j)
        /\ SlotOf(engine'.clusters, i) = SlotOf(engine'.clusters, j)
        /\ engine'.mergesDone = engine.mergesDone + 1

\* C29 (single linkage soundness): whatever maxClusterSize is, two items
\* are in the same cluster only if a chain of items connects them in which
\* every consecutive pair has a matrix similarity at or above the
\* threshold, and no merge is performed without a candidate pair that
\* meets the threshold.
C29_SingleLinkageSound ==
  /\ [](engine.run # 0 => ClustersAreChained(engine))
  /\ [][MergedOnCandidate]_vars

\* A merge loop has ended under a cap below the number of items with a
\* cluster that holds two items whose similarity is below the threshold.
C29_ChainedUnderCap ==
  /\ engine.run # 0
  /\ engine.merges = <<>>
  /\ engine.maxClusterSize < Cardinality(DOMAIN engine.similarityMatrix)
  /\ \E c \in DOMAIN engine.clusters :
       \E a, b \in Members(engine.clusters, c) :
         a < b /\ ~Linked(engine.similarityMatrix, engine.threshold, a, b)

\* At most one Worker object is alive, and it is the one the service
\* refers to; none is alive before the first initialize call.
OneLiveWorker ==
  /\ Cardinality(alive) <= 1
  /\ alive \subseteq 1..workersCreated
  /\ worker # 0 => alive = {worker}
  /\ worker = 0 => alive = {}

\* Initialize has been called and neither cancel nor dispose since: kept
\* true by initialize, false by cancel and dispose, and as it is by every
\* other step (WorkerKept).
Usable == alive # {}

WorkerKept ==
  /\ workersCreated' # workersCreated
       => (/\ workersCreated' = workersCreated + 1
           /\ alive' = {workersCreated'})
  /\ (Cancel \/ Dispose) => alive' = {}
  /\ (workersCreated' = workersCreated /\ ~(Cancel \/ Dispose))
       => alive' = alive

\* A processTexts call is rejected as not initialized exactly when the
\* service is not usable, and is pending on the live worker otherwise.
RejectedUnlessUsable ==
  calls' # calls =>
    /\ calls' = calls + 1
    /\ IF Usable
         THEN /\ promise'[calls'].state = "pending"
              /\ promise'[calls'].on \in alive
              /\ Len(toWorker') = Len(toWorker) + 1
         ELSE /\ promise'[calls'].state = "rejected"
              /\ promise'[calls'].error = "Text similarity service not initialized"
              /\ toWorker' = toWorker

\* The promise of call k is pending on a worker that has been terminated.
Orphaned(k) == promise[k].state = "pending" /\ promise[k].on \notin alive

\* cancel, dispose and initialize orphan every pending promise, and an
\* orphaned promise stays as it is.
OrphanedForGood ==
  \A k \in CallIds :
    /\ (/\ promise[k].state = "pending"
        /\ Cancel \/ Dispose \/ workersCreated' # workersCreated)
         => Orphaned(k)'
    /\ Orphaned(k) => (Orphaned(k)' /\ promise'[k] = promise[k])

\* C30 (service lifecycle): at most one worker is alive at any time;
\* processTexts fails with 'Text similarity service not initialized'
\* whenever initialize has not been called or cancel or dispose has been
\* called since the last initialize; and the promise of a call that was
\* pending when cancel, dispose or initialize was called is never resolved
\* and never rejected afterwards.
C30_Lifecycle ==
  /\ []OneLiveWorker
  /\ [][WorkerKept /\ RejectedUnlessUsable /\ OrphanedForGood]_vars

\* A second initialize call has terminated the worker of a pending call,
\* a call on the second worker has been resolved, and the first call's
\* promise is still pending.
C30_ReinitializedAndResolved ==
  /\ workersCreated = 2
  /\ alive = {2}
  /\ promise[1].state = "pending"
  /\ promise[1].on = 1
  /\ promise[2].state = "resolved"
  /\ promise[2].on = 2
====
